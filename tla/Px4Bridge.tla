------------------------------ MODULE Px4Bridge ------------------------------
(* The PX4 odometry bridge: Px4OdometryBridge::handleOdometry and the          *)
(* SampleRateSelector it drives.  The front end publishes a state at IMU rate, *)
(* stamped with the measurement time and a reset counter that is incremented   *)
(* whenever the public world frame changes; the bridge forwards at most one    *)
(* sample per target period to the PX4 estimator.                              *)
(*                                                                             *)
(* A sample is its stamp and the frame it is expressed in.  Delivery is the    *)
(* handler call itself: the topic is reliable and ordered, a sample the bridge *)
(* never sees (queue overflow, wrong frame names, a value convert() refuses)   *)
(* is a step of the stamp that no handler takes.                               *)
EXTENDS Integers

CONSTANTS
    Interval,   \* publish_interval_ns_, in ticks
    Counters,   \* values of the reset counter: 2^8 in the code
    MaxTime,    \* bound on the stamps
    MaxFrames,  \* bound on the world frames of one run
    MaxBoots    \* bound on the restarts of the front-end process

ASSUME IntervalAssumption == Interval \in Nat \ {0}
ASSUME CountersAssumption == Counters \in Nat \ {0, 1}
ASSUME BoundsAssumption == /\ MaxTime \in Nat \ {0}
                           /\ MaxFrames \in Nat
                           /\ MaxBoots \in Nat

NoTime == 0        \* std::nullopt; convert() refuses stamps <= 0
Times == 1 .. MaxTime
NoSample == [time |-> NoTime, frame |-> 0]

VARIABLES
    clock,      \* stamp of the front end's last sample
    frame,      \* the world frame it publishes in: one number per change
    counter,    \* odom_reset_counter_
    unheard,    \* changes of frame since the bridge last handled a sample
    boots,      \* restarts of the front-end process so far
    selector,   \* previous_sample_time_ns_, next_target_time_ns_, last_selected_...
    previous,   \* previous_odometry_
    resetCounter, \* reset_counter_ of the bridge
    sent,       \* the last VehicleOdometry published: stamp, frame, counter
    rate        \* since the selector started: first stamp, publications, whether
                \* no two samples were further apart than Interval

source == <<clock, frame, counter, unheard, boots>>
bridge == <<selector, previous, resetCounter, sent, rate>>
vars == <<source, bridge>>

EmptySelector == [prev |-> NoTime, next |-> NoTime, last |-> NoTime]

Init ==
    /\ clock = NoTime /\ frame = 0 /\ counter = 0 /\ unheard = 0 /\ boots = 0
    /\ selector = EmptySelector
    /\ previous = NoSample
    /\ resetCounter = 0
    /\ sent = [time |-> NoTime, frame |-> 0, counter |-> 0]
    /\ rate = [since |-> NoTime, sent |-> 0, steady |-> TRUE]

------------------------------------------------------------------------------
(* Mutant: the target period restarts at the sample that is forwarded          *)
NextFromChosen(s, t, chosen) == chosen + Interval

(* Mutant: after a gap the selector resumes one period late                    *)
NextSkipping(s, t, chosen) ==
    IF t - s.next >= Interval THEN t + 2 * Interval ELSE s.next + Interval

(* The target after the one that stamp t has reached: a gap of a whole period  *)
(* restarts the periods at t                                                   *)
NextTarget(s, t, chosen) ==
    IF t - s.next >= Interval THEN t + Interval ELSE s.next + Interval

(* The stamp nearest to the target that stamp t has reached                    *)
Nearest(s, t) ==
    IF t - s.next < Interval /\ s.next - s.prev < t - s.next THEN s.prev ELSE t

(* Mutant: a sample is forwarded even if it has been before                    *)
IsNewAlways(s, chosen) == TRUE

IsNew(s, chosen) == chosen > s.last

(* SampleRateSelector::select: which sample to forward, and the selector after *)
Select(s, t) ==
    CASE s.prev = NoTime ->
           [pick |-> "current",
            to |-> [prev |-> t, next |-> t + Interval, last |-> t]]
      [] s.prev # NoTime /\ t <= s.prev -> [pick |-> "none", to |-> s]
      [] s.prev # NoTime /\ t > s.prev /\ t < s.next ->
           [pick |-> "none", to |-> [s EXCEPT !.prev = t]]
      [] OTHER ->
           LET chosen == Nearest(s, t)
               to(last) == [prev |-> t, next |-> NextTarget(s, t, chosen), last |-> last]
           IN  CASE ~IsNew(s, chosen) -> [pick |-> "none", to |-> to(s.last)]
                 [] IsNew(s, chosen) /\ chosen = t -> [pick |-> "current", to |-> to(t)]
                 [] OTHER -> [pick |-> "previous", to |-> to(chosen)]

(* Mutant: publications carry the counter without the change *)
PublishUnannounced(sample, c) ==
    sent' = [time |-> sample.time, frame |-> sample.frame, counter |-> resetCounter]

(* publishConvertedOdometry *)
Publish(sample, c) ==
    sent' = [time |-> sample.time, frame |-> sample.frame, counter |-> c]

(* handleOdometry, the counter of the message differs from the bridge's        *)
HandleReset(sample) ==
    /\ counter # resetCounter
    /\ resetCounter' = counter
    /\ selector' = Select(EmptySelector, sample.time).to
    /\ previous' = sample
    /\ Publish(sample, counter)
    /\ rate' = [since |-> sample.time, sent |-> 1, steady |-> TRUE]

(* The bookkeeping of rate over one handled sample *)
RateAfter(t, pick) ==
    IF selector.prev = NoTime
      THEN [since |-> t, sent |-> 1, steady |-> TRUE]
      ELSE [rate EXCEPT !.sent = IF pick = "none" THEN @ ELSE @ + 1,
                        !.steady = @ /\ t - selector.prev <= Interval]

(* The sample handleOdometry forwards for a selection *)
Forwarded(pick, sample) == IF pick = "previous" THEN previous ELSE sample

(* handleOdometry, the counter is unchanged *)
HandleSample(sample) ==
    LET sel == Select(selector, sample.time) IN
    /\ counter = resetCounter
    /\ selector' = sel.to
    /\ \/ sel.pick = "none" /\ UNCHANGED sent
       \/ sel.pick # "none" /\ Publish(Forwarded(sel.pick, sample), resetCounter)
    /\ previous' = sample
    /\ rate' = RateAfter(sample.time, sel.pick)
    /\ UNCHANGED resetCounter

(* handleOdometry on a message with stamp t *)
HandleOdometry(t) ==
    LET sample == [time |-> t, frame |-> frame] IN
    /\ t \in Times /\ t > clock
    /\ clock' = t
    /\ unheard' = 0
    /\ HandleReset(sample) \/ HandleSample(sample)
    /\ UNCHANGED <<frame, counter, boots>>

(* A message the bridge drops: not enabled, wrong frames, not convertible, or  *)
(* pushed out of the ten-deep history                                          *)
MissSample(t) ==
    /\ t \in Times /\ t > clock
    /\ clock' = t
    /\ UNCHANGED <<frame, counter, unheard, boots, bridge>>

(* The front end changes its world frame: an estimator reset, whose stamps may *)
(* start again, or the gravity alignment.  The bound on unheard keeps the      *)
(* counter from wrapping all the way round between two samples.                *)
ChangeFrame(restamped) ==
    /\ frame < MaxFrames
    /\ unheard < Counters - 1
    /\ frame' = frame + 1
    /\ unheard' = unheard + 1
    /\ counter' = (counter + 1) % Counters
    /\ clock' = IF restamped THEN NoTime ELSE clock
    /\ UNCHANGED <<boots, bridge>>

(* The front-end process restarts on a clock that starts again (a replay       *)
(* launched a second time): its counter is 0 once more                         *)
RestartFrontEnd ==
    /\ boots < MaxBoots
    /\ frame < MaxFrames
    /\ boots' = boots + 1
    /\ frame' = frame + 1
    /\ counter' = 0
    /\ unheard' = 0
    /\ clock' = NoTime
    /\ UNCHANGED bridge

(* The bridge process restarts: its members have their initial values          *)
RestartBridge ==
    /\ selector' = EmptySelector
    /\ previous' = NoSample
    /\ resetCounter' = 0
    /\ rate' = [since |-> NoTime, sent |-> 0, steady |-> TRUE]
    /\ UNCHANGED <<source, sent>>

Next ==
    \/ \E t \in Times : HandleOdometry(t) \/ MissSample(t)
    \/ \E restamped \in BOOLEAN : ChangeFrame(restamped)
    \/ RestartFrontEnd
    \/ RestartBridge

Spec == Init /\ [][Next]_vars

------------------------------------------------------------------------------
(* Properties *)

(* Every variable keeps to its domain.                                         *)
TypeOK ==
    /\ clock \in 0 .. MaxTime
    /\ frame \in 0 .. MaxFrames /\ boots \in 0 .. MaxBoots
    /\ counter \in 0 .. Counters - 1 /\ resetCounter \in 0 .. Counters - 1
    /\ unheard \in 0 .. Counters - 1
    /\ selector \in [prev : 0 .. MaxTime, next : 0 .. MaxTime + Interval,
                     last : 0 .. MaxTime]
    /\ previous \in [time : 0 .. MaxTime, frame : 0 .. MaxFrames]
    /\ sent \in [time : 0 .. MaxTime, frame : 0 .. MaxFrames,
                 counter : 0 .. Counters - 1]
    /\ rate \in [since : 0 .. MaxTime, sent : Nat, steady : BOOLEAN]

(* "Publishing at up to the target rate": since the selector started, the      *)
(* bridge has published at most once per target period, whatever the spacing   *)
(* of the samples.                                                             *)
RateBounded == (rate.sent - 1) * Interval <= selector.prev - rate.since

(* No systematic rate loss (the reason the selector holds one sample back): as *)
(* long as the source is never slower than the target, no target period goes   *)
(* by without a publication, although a held-back sample that is nearest to    *)
(* two targets is published once only.                                         *)
NoRateLoss ==
    selector.prev # NoTime /\ rate.steady =>
        rate.sent * Interval > selector.prev - rate.since

(* PX4 never sees the pose jump with the world frame unannounced: two          *)
(* successive publications in different frames carry different reset counters, *)
(* as long as the front-end process has not been restarted.                    *)
JumpsAnnounced ==
    [][boots' = 0 /\ sent'.frame # sent.frame /\ sent.time # NoTime
         => sent'.counter # sent.counter]_vars

(* Within one world frame the published measurements only move forward, even   *)
(* when the bridge process is restarted in between.                            *)
MovesForward ==
    [][(sent' # sent \/ rate'.sent > rate.sent) /\ boots' = 0
          /\ sent'.frame = sent.frame
         => sent'.time > sent.time]_vars

(* "Never repeats an older sample to fill a sensor gap": a publication that    *)
(* does not announce a reset is newer than every measurement the selector has  *)
(* published since it started.  handleOdometry overwrites previous_odometry_   *)
(* with samples the selector has just dropped as out of order, so this fails   *)
(* once a restarted front end repeats stamps under the same counter.           *)
NeverRepeatsOlder ==
    [][sent' # sent /\ selector.prev # NoTime /\ resetCounter' = resetCounter
         => sent'.time > selector.last]_vars
=============================================================================
