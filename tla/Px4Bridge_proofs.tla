--------------------------- MODULE Px4Bridge_proofs ---------------------------
(* The PX4 bridge keeps the target rate, for every target period and every     *)
(* spacing of the samples: it neither publishes more often than once per       *)
(* period (RateBounded) nor, with a source that is fast enough, less often     *)
(* (NoRateLoss).  For any number of frames, counter values and restarts of the *)
(* bridge, it announces each change of frame and moves forward within one.     *)
EXTENDS Px4Bridge, TLAPS

(* Stamps as the selector keeps them *)
SelectorType ==
    /\ selector \in [prev : Nat, next : Nat, last : Nat]
    /\ rate \in [since : Nat, sent : Nat, steady : BOOLEAN]

(* A selector that has seen no sample has published nothing *)
IdleInv ==
    selector.prev = NoTime => /\ selector = EmptySelector
                              /\ rate.since = NoTime
                              /\ rate.sent = 0

(* The target is at most one period after the newest sample, which has not     *)
(* reached it, and the periods since the start account for the publications    *)
TargetInv ==
    selector.prev # NoTime =>
        /\ selector.last =< selector.prev
        /\ selector.prev < selector.next
        /\ selector.next - Interval =< selector.prev
        /\ rate.since + rate.sent * Interval =< selector.next

(* With a source that is fast enough every period has been used, and the last  *)
(* publication is no further than half a period after the target it was for    *)
SteadyInv ==
    selector.prev # NoTime /\ rate.steady =>
        /\ selector.next = rate.since + rate.sent * Interval
        /\ 2 * (selector.last - (selector.next - Interval)) =< Interval

RateInv == SelectorType /\ IdleInv /\ TargetInv /\ SteadyInv

(* What the selector answers to a sample that is its first, stale, early, or   *)
(* due                                                                         *)
LEMMA SelectCases ==
    ASSUME NEW s \in [prev : Nat, next : Nat, last : Nat], NEW t \in Nat
    PROVE  /\ s.prev = NoTime =>
                 Select(s, t) = [pick |-> "current",
                                 to |-> [prev |-> t, next |-> t + Interval, last |-> t]]
           /\ s.prev # NoTime /\ t =< s.prev =>
                 Select(s, t) = [pick |-> "none", to |-> s]
           /\ s.prev # NoTime /\ t > s.prev /\ t < s.next =>
                 Select(s, t) = [pick |-> "none", to |-> [s EXCEPT !.prev = t]]
           /\ s.prev # NoTime /\ t > s.prev /\ t >= s.next =>
                 /\ ~IsNew(s, Nearest(s, t)) =>
                      Select(s, t) = [pick |-> "none",
                                      to |-> [prev |-> t,
                                              next |-> NextTarget(s, t, Nearest(s, t)),
                                              last |-> s.last]]
                 /\ IsNew(s, Nearest(s, t)) =>
                      /\ Select(s, t).pick # "none"
                      /\ Select(s, t).to = [prev |-> t,
                                            next |-> NextTarget(s, t, Nearest(s, t)),
                                            last |-> Nearest(s, t)]
  BY DEF Select

(* A first sample starts the periods *)
LEMMA FirstStep ==
    ASSUME NEW t \in Times,
           selector' = [prev |-> t, next |-> t + Interval, last |-> t],
           rate' = [since |-> t, sent |-> 1, steady |-> TRUE]
    PROVE  RateInv'
  <1>1. Interval \in Nat /\ Interval > 0 /\ t \in Nat /\ t > 0
    BY IntervalAssumption, BoundsAssumption DEF Times
  <1>2. 1 * Interval = Interval
    BY <1>1
  <1> QED
    BY <1>1, <1>2 DEF RateInv, SelectorType, IdleInv, TargetInv, SteadyInv, NoTime

(* A sample with the counter of the bridge *)
LEMMA SampleStep ==
    ASSUME RateInv, NEW t \in Times,
           selector' = Select(selector, t).to,
           rate' = RateAfter(t, Select(selector, t).pick)
    PROVE  RateInv'
  <1> DEFINE sel == Select(selector, t)
  <1>1. /\ Interval \in Nat /\ Interval > 0 /\ t \in Nat /\ t > 0
        /\ selector \in [prev : Nat, next : Nat, last : Nat]
        /\ rate \in [since : Nat, sent : Nat, steady : BOOLEAN]
    BY IntervalAssumption, BoundsAssumption DEF Times, RateInv, SelectorType
  <1>2. CASE selector.prev = NoTime
    <2>1. sel = [pick |-> "current", to |-> [prev |-> t, next |-> t + Interval, last |-> t]]
      BY <1>1, <1>2, SelectCases
    <2> QED
      BY <1>2, <2>1, FirstStep DEF RateAfter
  <1>3. CASE selector.prev # NoTime
    <2> USE <1>3
    <2> DEFINE st == rate.steady /\ t - selector.prev =< Interval
               m  == IF sel.pick = "none" THEN rate.sent ELSE rate.sent + 1
    <2>a. rate' = [rate EXCEPT !.sent = m, !.steady = st]
      BY <1>3 DEF RateAfter
    <2>b. st \in BOOLEAN /\ m \in Nat
      BY <1>1
    <2>c. st => rate.steady /\ t - selector.prev =< Interval
      OBVIOUS
    <2>0. /\ rate'.since = rate.since
          /\ rate'.sent = IF sel.pick = "none" THEN rate.sent ELSE rate.sent + 1
          /\ rate'.steady => rate.steady /\ t - selector.prev =< Interval
          /\ rate' \in [since : Nat, sent : Nat, steady : BOOLEAN]
      <3> HIDE DEF st, sel
      <3> QED
        BY <1>1, <2>a, <2>b, <2>c
    <2> HIDE DEF st
    <2>1. CASE t =< selector.prev
      <3>a. sel = [pick |-> "none", to |-> selector]
        BY <1>1, <2>1, SelectCases
      <3>1. selector' = selector /\ rate'.sent = rate.sent
        BY <2>0, <3>a
      <3> QED
        BY <1>1, <2>0, <3>1 DEF RateInv, SelectorType, IdleInv, TargetInv, SteadyInv
    <2>2. CASE t > selector.prev /\ t < selector.next
      <3>a. sel = [pick |-> "none", to |-> [selector EXCEPT !.prev = t]]
        BY <1>1, <2>2, SelectCases
      <3>1. selector' = [selector EXCEPT !.prev = t] /\ rate'.sent = rate.sent
        BY <2>0, <3>a
      <3> QED
        BY <1>1, <2>0, <2>2, <3>1
           DEF RateInv, SelectorType, IdleInv, TargetInv, SteadyInv, NoTime
    <2>3. CASE t > selector.prev /\ t >= selector.next
      <3> DEFINE c == Nearest(selector, t)
                 n == NextTarget(selector, t, c)
      <3>1. /\ selector.last =< selector.prev /\ selector.prev < selector.next
            /\ selector.next - Interval =< selector.prev
            /\ rate.since + rate.sent * Interval =< selector.next
        BY <1>1 DEF RateInv, TargetInv
      <3>2. /\ n \in Nat /\ n > t /\ n =< t + Interval
            /\ n >= selector.next + Interval
            /\ c \in Nat /\ c =< t
        BY <1>1, <2>3, <3>1 DEF NextTarget, Nearest
      <3>3. (rate.sent + 1) * Interval = rate.sent * Interval + Interval
        BY <1>1
      <3>4. rate.sent * Interval \in Nat
        BY <1>1
      <3>5. /\ selector'.prev = t /\ selector'.next = n
            /\ selector'.last = IF IsNew(selector, c) THEN c ELSE selector.last
            /\ selector' \in [prev : Nat, next : Nat, last : Nat]
            /\ rate'.sent = IF IsNew(selector, c) THEN rate.sent + 1 ELSE rate.sent
        <4> DEFINE toAfter(last) == [prev |-> t, next |-> n, last |-> last]
        <4>1. CASE IsNew(selector, c)
          <5>1. sel.pick # "none" /\ sel.to = toAfter(c)
            BY <1>1, <2>3, <4>1, SelectCases
          <5> QED
            BY <1>1, <2>0, <3>2, <4>1, <5>1
        <4>2. CASE ~IsNew(selector, c)
          <5>1. sel = [pick |-> "none", to |-> toAfter(selector.last)]
            BY <1>1, <2>3, <4>2, SelectCases
          <5> QED
            BY <1>1, <2>0, <3>2, <4>2, <5>1
        <4> QED
          BY <4>1, <4>2
      <3>6. TargetInv'
        BY <1>1, <2>0, <3>1, <3>2, <3>3, <3>4, <3>5, <2>3 DEF TargetInv
      <3>7. SteadyInv'
        <4> SUFFICES ASSUME rate'.steady
                     PROVE  /\ n = rate.since + rate'.sent * Interval
                            /\ 2 * (selector'.last - (n - Interval)) =< Interval
          BY <2>0, <3>5 DEF SteadyInv
        <4>1. /\ t - selector.prev =< Interval
              /\ selector.next = rate.since + rate.sent * Interval
              /\ 2 * (selector.last - (selector.next - Interval)) =< Interval
          BY <2>0 DEF RateInv, SteadyInv
        <4>2. n = selector.next + Interval
          BY <1>1, <3>1, <4>1 DEF NextTarget
        <4>3. c > selector.last /\ 2 * (c - selector.next) =< Interval
          BY <1>1, <2>3, <3>1, <4>1 DEF Nearest
        <4>4. selector'.last = c /\ rate'.sent = rate.sent + 1
          BY <3>5, <4>3 DEF IsNew
        <4> QED
          BY <1>1, <3>2, <3>3, <3>4, <4>1, <4>2, <4>3, <4>4
      <3>8. SelectorType' /\ IdleInv'
        BY <1>1, <2>0, <3>5 DEF SelectorType, IdleInv, NoTime
      <3> QED
        BY <3>6, <3>7, <3>8 DEF RateInv
    <2> QED
      BY <1>1, <2>1, <2>2, <2>3
  <1> QED
    BY <1>2, <1>3

LEMMA RateInit == Init => RateInv
  BY DEF Init, RateInv, SelectorType, IdleInv, TargetInv, SteadyInv, NoTime, EmptySelector

LEMMA RateNext == RateInv /\ [Next]_vars => RateInv'
  <1> SUFFICES ASSUME RateInv, [Next]_vars
               PROVE  RateInv'
    OBVIOUS
  <1> USE DEF RateInv, SelectorType, IdleInv, TargetInv, SteadyInv
  <1>1. ASSUME UNCHANGED <<selector, rate>>
        PROVE  RateInv'
    BY <1>1
  <1>2. ASSUME NEW t \in Times, HandleOdometry(t)
        PROVE  RateInv'
    <2> DEFINE sample == [time |-> t, frame |-> frame]
    <2>1. CASE HandleReset(sample)
      <3>1. EmptySelector \in [prev : Nat, next : Nat, last : Nat] /\ t \in Nat
        BY BoundsAssumption DEF EmptySelector, NoTime, Times
      <3>a. EmptySelector.prev = NoTime
        BY DEF EmptySelector
      <3>b. Select(EmptySelector, t) =
              [pick |-> "current", to |-> [prev |-> t, next |-> t + Interval, last |-> t]]
        BY <3>1, <3>a, SelectCases
      <3>2. selector' = [prev |-> t, next |-> t + Interval, last |-> t]
        BY <2>1, <3>b DEF HandleReset
      <3> QED
        BY <2>1, <3>2, FirstStep DEF HandleReset
    <2>2. CASE HandleSample(sample)
      BY <2>2, SampleStep DEF HandleSample
    <2> QED
      BY <1>2, <2>1, <2>2 DEF HandleOdometry
  <1>3. ASSUME RestartBridge
        PROVE  RateInv'
    BY <1>3 DEF RestartBridge, EmptySelector, NoTime
  <1> QED
    BY <1>1, <1>2, <1>3
       DEF Next, MissSample, ChangeFrame, RestartFrontEnd, vars, bridge

(* The invariant implies both statements about the rate *)
LEMMA RateFacts == RateInv => RateBounded /\ NoRateLoss
  <1> SUFFICES ASSUME RateInv
               PROVE  RateBounded /\ NoRateLoss
    OBVIOUS
  <1>1. /\ Interval \in Nat /\ Interval > 0
        /\ selector \in [prev : Nat, next : Nat, last : Nat]
        /\ rate \in [since : Nat, sent : Nat, steady : BOOLEAN]
    BY IntervalAssumption DEF RateInv, SelectorType
  <1>2. /\ (rate.sent - 1) * Interval = rate.sent * Interval - Interval
        /\ rate.sent * Interval \in Nat
    BY <1>1
  <1>3. CASE selector.prev = NoTime
    BY <1>1, <1>3 DEF RateInv, IdleInv, RateBounded, NoRateLoss, NoTime
  <1>4. CASE selector.prev # NoTime
    BY <1>1, <1>2, <1>4 DEF RateInv, TargetInv, SteadyInv, RateBounded, NoRateLoss
  <1> QED
    BY <1>3, <1>4

(* The bridge never publishes more often than the configured rate, for every   *)
(* period and every sequence of stamps, resets and restarts.                   *)
THEOREM RateIsBounded == Spec => []RateBounded
  BY RateInit, RateNext, RateFacts, PTL DEF Spec

(* With samples at most one period apart the bridge never misses a period: the *)
(* sample that is held back costs no rate.                                     *)
THEOREM NoPeriodIsLost == Spec => []NoRateLoss
  BY RateInit, RateNext, RateFacts, PTL DEF Spec

------------------------------------------------------------------------------
(* Frames and counters *)

FrameType ==
    /\ clock \in Nat /\ frame \in Nat /\ boots \in Nat
    /\ counter \in 0 .. Counters - 1 /\ unheard \in 0 .. Counters - 1
    /\ resetCounter \in 0 .. Counters - 1
    /\ previous \in [time : Nat, frame : Nat]
    /\ sent \in [time : Nat, frame : Nat, counter : 0 .. Counters - 1]

(* What PX4 heard last is as many frames and counts behind the front end as    *)
(* there were changes no sample has told of                                    *)
HeardInv ==
    sent.time # NoTime =>
        /\ sent.frame + unheard = frame
        /\ \/ counter = sent.counter + unheard
           \/ counter = sent.counter + unheard - Counters
        /\ unheard = 0 => sent.time =< clock

(* The sample held back is of the frame published last                         *)
HeldInv ==
    selector.prev # NoTime =>
        /\ sent.time # NoTime /\ sent.time = selector.last
        /\ resetCounter = sent.counter
        /\ previous = [time |-> selector.prev, frame |-> sent.frame]
        /\ unheard = 0 => selector.prev =< clock

FrameInv == RateInv /\ FrameType /\ (boots = 0 => HeardInv /\ HeldInv)

(* The counter of the next frame                                               *)
LEMMA CountsUp ==
    ASSUME NEW c \in 0 .. Counters - 1
    PROVE  (c + 1) % Counters = IF c = Counters - 1 THEN 0 ELSE c + 1
  BY CountersAssumption

(* PX4 is as far as the front end in its counter only when it is in its frame  *)
LEMMA SameCounter ==
    ASSUME FrameType, HeardInv, sent.time # NoTime, counter = sent.counter
    PROVE  unheard = 0 /\ sent.frame = frame
  BY CountersAssumption DEF FrameType, HeardInv

LEMMA FrameInit == Init => FrameInv
  <1> SUFFICES ASSUME Init PROVE FrameInv
    OBVIOUS
  <1>1. RateInv
    BY RateInit
  <1>2. FrameType
    BY CountersAssumption DEF Init, FrameType, NoTime, NoSample
  <1>3. HeardInv /\ HeldInv
    BY DEF Init, HeardInv, HeldInv, NoTime, EmptySelector
  <1> QED
    BY <1>1, <1>2, <1>3 DEF FrameInv

(* What a handled sample does to what PX4 has heard, as long as the front end  *)
(* has not been restarted: the sample's frame is published last, by a new      *)
(* sample of it or by the sample held back, unless nothing is published.       *)
LEMMA Handled ==
    ASSUME FrameInv, NEW t \in Times, HandleOdometry(t)
    PROVE  /\ FrameType'
           /\ boots = 0 =>
                /\ HeardInv' /\ HeldInv'
                /\ \/ /\ sent' = [time |-> sent'.time, frame |-> frame, counter |-> counter]
                      /\ sent'.time # NoTime
                      /\ sent.time # NoTime /\ sent.frame = frame => sent'.time > sent.time
                   \/ sent' = sent /\ rate'.sent =< rate.sent
  <1> DEFINE sample == [time |-> t, frame |-> frame]
  <1>1. /\ t \in Nat /\ t > 0 /\ t > clock /\ Interval \in Nat /\ Interval > 0
        /\ selector \in [prev : Nat, next : Nat, last : Nat]
        /\ rate \in [since : Nat, sent : Nat, steady : BOOLEAN]
        /\ FrameType /\ Counters \in Nat /\ Counters > 1
    BY IntervalAssumption, BoundsAssumption, CountersAssumption
       DEF Times, HandleOdometry, FrameInv, RateInv, SelectorType
  <1>2. /\ clock' = t /\ unheard' = 0 /\ frame' = frame /\ counter' = counter
        /\ boots' = boots
    BY DEF HandleOdometry
  <1>3. CASE HandleReset(sample)
    <2>1. selector' = [prev |-> t, next |-> t + Interval, last |-> t]
      <3>1. EmptySelector \in [prev : Nat, next : Nat, last : Nat] /\ EmptySelector.prev = NoTime
        BY DEF EmptySelector, NoTime
      <3>2. Select(EmptySelector, t) =
              [pick |-> "current", to |-> [prev |-> t, next |-> t + Interval, last |-> t]]
        BY <1>1, <3>1, SelectCases
      <3> QED
        BY <1>3, <3>2 DEF HandleReset
    <2>2. /\ sent' = [time |-> t, frame |-> frame, counter |-> counter]
          /\ previous' = [time |-> t, frame |-> frame]
          /\ resetCounter' = counter /\ counter # resetCounter
      BY <1>3 DEF HandleReset, Publish
    <2>3. FrameType' /\ HeardInv' /\ HeldInv'
      BY <1>1, <1>2, <2>1, <2>2 DEF FrameType, HeardInv, HeldInv, NoTime
    <2>4. ASSUME boots = 0, sent.time # NoTime, sent.frame = frame
          PROVE  t > sent.time
      <3>1. HeardInv
        BY <2>4 DEF FrameInv
      <3>2. unheard = 0
        BY <1>1, <2>4, <3>1 DEF HeardInv, FrameType
      <3> QED
        BY <1>1, <2>4, <3>1, <3>2 DEF HeardInv, FrameType
    <2> QED
      BY <1>1, <2>2, <2>3, <2>4 DEF NoTime
  <1>4. CASE HandleSample(sample)
    <2> DEFINE sel == Select(selector, t)
    <2>1. /\ selector' = sel.to /\ counter = resetCounter /\ resetCounter' = resetCounter
          /\ previous' = [time |-> t, frame |-> frame]
          /\ rate' = RateAfter(t, sel.pick)
          /\ sel.pick = "none" => sent' = sent
          /\ sel.pick # "none" =>
               sent' = [time |-> Forwarded(sel.pick, sample).time,
                        frame |-> Forwarded(sel.pick, sample).frame,
                        counter |-> counter]
      BY <1>4 DEF HandleSample, Publish
    <2>2. FrameType'
      BY <1>1, <1>2, <2>1 DEF FrameType, Forwarded
    <2>3. CASE boots = 0 /\ selector.prev = NoTime
      <3>1. sel = [pick |-> "current", to |-> [prev |-> t, next |-> t + Interval, last |-> t]]
        BY <1>1, <2>3, SelectCases
      <3>2. sent' = [time |-> t, frame |-> frame, counter |-> counter]
        BY <2>1, <3>1 DEF Forwarded
      <3>3. HeardInv' /\ HeldInv'
        BY <1>1, <1>2, <2>1, <3>1, <3>2 DEF FrameType, HeardInv, HeldInv, NoTime
      <3>4. sent.time # NoTime /\ sent.frame = frame => t > sent.time
        BY <1>1, <2>3 DEF FrameInv, HeardInv, FrameType
      <3> QED
        BY <1>1, <2>2, <3>2, <3>3, <3>4 DEF NoTime
    <2>4. CASE boots = 0 /\ selector.prev # NoTime
      <3>1. HeardInv /\ HeldInv /\ TargetInv
        BY <2>4 DEF FrameInv, RateInv
      <3>2. sent.time # NoTime /\ counter = sent.counter
        BY <2>1, <2>4, <3>1 DEF HeldInv
      <3>3. unheard = 0 /\ sent.frame = frame
        BY <1>1, <3>1, <3>2, SameCounter
      <3>4. /\ previous = [time |-> selector.prev, frame |-> frame]
            /\ selector.last = sent.time /\ t > selector.prev
            /\ selector.last =< selector.prev
        BY <1>1, <2>4, <3>1, <3>3 DEF HeldInv, TargetInv, FrameType
      <3>5. CASE t < selector.next
        <4>1. sel = [pick |-> "none", to |-> [selector EXCEPT !.prev = t]]
          BY <1>1, <2>4, <3>4, <3>5, SelectCases
        <4>2. sent' = sent /\ rate'.sent = rate.sent
          BY <1>1, <2>1, <2>4, <4>1 DEF RateAfter
        <4>3. HeardInv' /\ HeldInv'
          BY <1>1, <1>2, <2>1, <2>4, <3>1, <3>2, <3>3, <3>4, <4>1, <4>2
             DEF FrameType, HeardInv, HeldInv
        <4> QED
          BY <1>1, <2>2, <4>2, <4>3
      <3>6. CASE t >= selector.next
        <4> DEFINE c == Nearest(selector, t)
                   n == NextTarget(selector, t, c)
        <4>1. c \in Nat /\ n \in Nat /\ c \in {t, selector.prev}
          BY <1>1, <3>6 DEF Nearest, NextTarget
        <4>2. CASE ~IsNew(selector, c)
          <5>1. sel = [pick |-> "none", to |-> [prev |-> t, next |-> n, last |-> selector.last]]
            BY <1>1, <2>4, <3>4, <3>6, <4>2, SelectCases
          <5>2. sent' = sent /\ rate'.sent = rate.sent
            BY <1>1, <2>1, <2>4, <5>1 DEF RateAfter
          <5>3. HeardInv' /\ HeldInv'
            BY <1>1, <1>2, <2>1, <2>4, <3>1, <3>2, <3>3, <3>4, <5>1, <5>2
               DEF FrameType, HeardInv, HeldInv
          <5> QED
            BY <1>1, <2>2, <5>2, <5>3
        <4>3. CASE IsNew(selector, c)
          <5>1. /\ sel.pick = (IF c = t THEN "current" ELSE "previous")
                /\ sel.to = [prev |-> t, next |-> n, last |-> c]
            BY <1>1, <2>4, <3>4, <3>6, <4>3 DEF Select
          <5>2. sent' = [time |-> c, frame |-> frame, counter |-> counter]
            BY <2>1, <3>4, <4>1, <5>1 DEF Forwarded
          <5>3. c > sent.time /\ c # NoTime
            BY <1>1, <3>4, <4>1, <4>3 DEF IsNew, FrameType, NoTime
          <5>4. HeardInv' /\ HeldInv'
            BY <1>1, <1>2, <2>1, <3>4, <4>1, <5>1, <5>2, <5>3
               DEF FrameType, HeardInv, HeldInv, NoTime
          <5> QED
            BY <1>1, <2>2, <5>2, <5>3, <5>4
        <4> QED
          BY <4>2, <4>3
      <3> QED
        BY <1>1, <3>5, <3>6
    <2> QED
      BY <1>1, <2>2, <2>3, <2>4 DEF FrameType
  <1> QED
    BY <1>3, <1>4 DEF HandleOdometry

LEMMA FrameNext == FrameInv /\ [Next]_vars => FrameInv'
  <1> SUFFICES ASSUME FrameInv, [Next]_vars PROVE FrameInv'
    OBVIOUS
  <1>1. RateInv'
    BY RateNext DEF FrameInv
  <1>2. Counters \in Nat /\ Counters > 1
    BY CountersAssumption
  <1>3. ASSUME NEW t \in Times, HandleOdometry(t)
        PROVE  FrameType' /\ (boots' = 0 => HeardInv' /\ HeldInv')
    BY <1>3, Handled DEF HandleOdometry
  <1>4. ASSUME NEW t \in Times, MissSample(t)
        PROVE  FrameType' /\ (boots' = 0 => HeardInv' /\ HeldInv')
    <2>1. t \in Nat /\ t > clock
      BY <1>4, BoundsAssumption DEF Times, MissSample
    <2> QED
      BY <1>2, <1>4, <2>1
         DEF MissSample, bridge, FrameInv, RateInv, SelectorType, FrameType, HeardInv, HeldInv
  <1>5. ASSUME NEW restamped \in BOOLEAN, ChangeFrame(restamped)
        PROVE  FrameType' /\ (boots' = 0 => HeardInv' /\ HeldInv')
    <2>1. counter' = IF counter = Counters - 1 THEN 0 ELSE counter + 1
      BY <1>5, CountsUp DEF ChangeFrame, FrameInv, FrameType
    <2>2. /\ unheard' = unheard + 1 /\ unheard < Counters - 1 /\ frame' = frame + 1
          /\ boots' = boots /\ UNCHANGED <<selector, previous, resetCounter, sent, rate>>
          /\ clock' \in {NoTime, clock}
      BY <1>5 DEF ChangeFrame, bridge
    <2>3. FrameType'
      BY <1>2, <2>1, <2>2 DEF FrameInv, FrameType, NoTime
    <2> QED
      BY <1>2, <2>1, <2>2, <2>3
         DEF FrameInv, FrameType, HeardInv, HeldInv
  <1>6. ASSUME RestartFrontEnd
        PROVE  FrameType' /\ (boots' = 0 => HeardInv' /\ HeldInv')
    BY <1>2, <1>6 DEF RestartFrontEnd, bridge, FrameInv, FrameType, NoTime
  <1>7. ASSUME RestartBridge
        PROVE  FrameType' /\ (boots' = 0 => HeardInv' /\ HeldInv')
    BY <1>2, <1>7
       DEF RestartBridge, source, FrameInv, FrameType, HeardInv, HeldInv, NoTime, NoSample,
           EmptySelector
  <1>8. ASSUME UNCHANGED vars
        PROVE  FrameType' /\ (boots' = 0 => HeardInv' /\ HeldInv')
    BY <1>8 DEF vars, source, bridge, FrameInv, FrameType, HeardInv, HeldInv
  <1>9. FrameType' /\ (boots' = 0 => HeardInv' /\ HeldInv')
    BY <1>3, <1>4, <1>5, <1>6, <1>7, <1>8 DEF Next
  <1> QED
    BY <1>1, <1>9 DEF FrameInv

(* As long as the front end runs: what is published anew is in its frame, with *)
(* its counter and, within a frame, later than what was published before.      *)
LEMMA PublishedAnew ==
    ASSUME FrameInv, [Next]_vars, boots' = 0, sent' # sent \/ rate'.sent > rate.sent
    PROVE  /\ boots = 0
           /\ sent' = [time |-> sent'.time, frame |-> frame, counter |-> counter]
           /\ sent'.time # NoTime /\ sent'.time \in Nat
           /\ sent.time # NoTime /\ sent.frame = frame => sent'.time > sent.time
  <1>1. PICK t \in Times : HandleOdometry(t)
    BY DEF Next, MissSample, ChangeFrame, RestartFrontEnd, RestartBridge, vars, source,
           bridge, FrameInv, RateInv, SelectorType
  <1>2. boots = 0
    BY <1>1 DEF HandleOdometry
  <1>3. rate \in [since : Nat, sent : Nat, steady : BOOLEAN]
    BY DEF FrameInv, RateInv, SelectorType
  <1>4. rate' \in [since : Nat, sent : Nat, steady : BOOLEAN]
    BY FrameNext DEF FrameInv, RateInv, SelectorType
  <1>5. /\ sent' = [time |-> sent'.time, frame |-> frame, counter |-> counter]
        /\ sent'.time # NoTime
        /\ sent.time # NoTime /\ sent.frame = frame => sent'.time > sent.time
    BY <1>1, <1>2, <1>3, <1>4, Handled
  <1>6. sent'.time \in Nat
    BY FrameNext DEF FrameInv, FrameType
  <1> QED
    BY <1>2, <1>5, <1>6

(* PX4 never sees the frame change without the counter, for any number of      *)
(* changes, lost samples and restarts of the bridge.                           *)
THEOREM JumpsAreAnnounced == Spec => JumpsAnnounced
  <1>1. ASSUME FrameInv, [Next]_vars, boots' = 0, sent'.frame # sent.frame, sent.time # NoTime
        PROVE  sent'.counter # sent.counter
    <2>1. boots = 0 /\ sent'.frame = frame /\ sent'.counter = counter
      BY <1>1, PublishedAnew
    <2>2. FrameType /\ HeardInv
      BY <1>1, <2>1 DEF FrameInv
    <2> QED
      BY <1>1, <2>1, <2>2, SameCounter
  <1>2. FrameInv /\ [Next]_vars =>
          [boots' = 0 /\ sent'.frame # sent.frame /\ sent.time # NoTime
             => sent'.counter # sent.counter]_vars
    BY <1>1
  <1> QED
    BY <1>2, FrameInit, FrameNext, PTL DEF Spec, JumpsAnnounced

(* What is published in one frame moves forward in time, also over a restart   *)
(* of the bridge.                                                              *)
THEOREM PublicationsMoveForward == Spec => MovesForward
  <1>1. ASSUME FrameInv, [Next]_vars, sent' # sent \/ rate'.sent > rate.sent,
               boots' = 0, sent'.frame = sent.frame
        PROVE  sent'.time > sent.time
    <2>1. /\ sent'.frame = frame /\ sent'.time # NoTime /\ sent'.time \in Nat
          /\ sent.time # NoTime /\ sent.frame = frame => sent'.time > sent.time
      BY <1>1, PublishedAnew
    <2> QED
      BY <1>1, <2>1 DEF NoTime
  <1>2. FrameInv /\ [Next]_vars =>
          [(sent' # sent \/ rate'.sent > rate.sent) /\ boots' = 0 /\ sent'.frame = sent.frame
             => sent'.time > sent.time]_vars
    BY <1>1
  <1> QED
    BY <1>2, FrameInit, FrameNext, PTL DEF Spec, MovesForward

------------------------------------------------------------------------------
(* Type correctness                                                            *)

(* The next target stays within a period of the newest stamp                   *)
LEMMA SelectTyped ==
    ASSUME NEW s \in [prev : 0 .. MaxTime, next : 0 .. MaxTime + Interval,
                      last : 0 .. MaxTime],
           NEW t \in Times
    PROVE  /\ Select(s, t).to \in [prev : 0 .. MaxTime, next : 0 .. MaxTime + Interval,
                                   last : 0 .. MaxTime]
           /\ Select(s, t).pick \in {"none", "current", "previous"}
  <1>1. /\ t \in 0 .. MaxTime /\ t + Interval \in 0 .. MaxTime + Interval
        /\ Interval \in Nat /\ MaxTime \in Nat
        /\ s.prev \in 0 .. MaxTime /\ s.last \in 0 .. MaxTime
        /\ s.next \in 0 .. MaxTime + Interval
    BY IntervalAssumption, BoundsAssumption DEF Times
  <1>2. s \in [prev : Nat, next : Nat, last : Nat] /\ t \in Nat
    BY <1>1
  <1>3. Select(s, t).pick \in {"none", "current", "previous"}
    BY DEF Select
  <1> DEFINE to == Select(s, t).to
  <1>4. CASE s.prev = NoTime
    <2>1. to = [prev |-> t, next |-> t + Interval, last |-> t]
      BY <1>2, <1>4 DEF Select
    <2> QED
      BY <1>1, <1>3, <2>1
  <1>5. CASE s.prev # NoTime /\ t =< s.prev
    <2>1. to = s
      BY <1>2, <1>5 DEF Select
    <2> QED
      BY <1>3, <2>1
  <1>6. CASE s.prev # NoTime /\ t > s.prev /\ t < s.next
    <2>1. to = [s EXCEPT !.prev = t]
      BY <1>2, <1>6 DEF Select
    <2> QED
      BY <1>1, <1>3, <2>1
  <1>7. CASE s.prev # NoTime /\ t > s.prev /\ t >= s.next
    <2>1. Nearest(s, t) \in 0 .. MaxTime
      BY <1>1 DEF Nearest
    <2>2. NextTarget(s, t, Nearest(s, t)) \in 0 .. MaxTime + Interval
      BY <1>1, <1>7 DEF NextTarget
    <2>3. \/ to = [prev |-> t, next |-> NextTarget(s, t, Nearest(s, t)), last |-> s.last]
          \/ to = [prev |-> t, next |-> NextTarget(s, t, Nearest(s, t)),
                   last |-> Nearest(s, t)]
      BY <1>2, <1>7, SelectCases
    <2> QED
      BY <1>1, <1>3, <2>1, <2>2, <2>3
  <1> QED
    BY <1>1, <1>4, <1>5, <1>6, <1>7

(* handleOdometry on a sample of either kind                                   *)
LEMMA HandledTyped ==
    ASSUME TypeOK, NEW t \in Times, HandleOdometry(t)
    PROVE  TypeOK'
  <1> DEFINE sample == [time |-> t, frame |-> frame]
  <1>1. t \in 0 .. MaxTime /\ sample \in [time : 0 .. MaxTime, frame : 0 .. MaxFrames]
    BY BoundsAssumption DEF TypeOK, Times
  <1>2. /\ clock' = t /\ unheard' = 0
        /\ UNCHANGED <<frame, counter, boots>>
        /\ previous' = sample
        /\ resetCounter' \in {counter, resetCounter}
    BY DEF HandleOdometry, HandleReset, HandleSample
  <1>3. 0 \in 0 .. Counters - 1
    BY CountersAssumption
  <1>4. CASE HandleReset(sample)
    <2>1. EmptySelector \in [prev : 0 .. MaxTime, next : 0 .. MaxTime + Interval,
                             last : 0 .. MaxTime]
      BY BoundsAssumption, IntervalAssumption DEF EmptySelector, NoTime
    <2>2. /\ selector' = Select(EmptySelector, t).to
          /\ sent' = [time |-> t, frame |-> frame, counter |-> counter]
          /\ rate' = [since |-> t, sent |-> 1, steady |-> TRUE]
      BY <1>4 DEF HandleReset, Publish
    <2> QED
      BY <1>1, <1>2, <1>3, <2>1, <2>2, SelectTyped DEF TypeOK
  <1>5. CASE HandleSample(sample)
    <2> DEFINE sel == Select(selector, t)
    <2>1. /\ sel.to \in [prev : 0 .. MaxTime, next : 0 .. MaxTime + Interval,
                         last : 0 .. MaxTime]
          /\ sel.pick \in {"none", "current", "previous"}
      BY SelectTyped DEF TypeOK
    <2>2. /\ selector' = sel.to
          /\ rate' = RateAfter(t, sel.pick)
          /\ \/ sent' = sent
             \/ sent' = [time |-> Forwarded(sel.pick, sample).time,
                         frame |-> Forwarded(sel.pick, sample).frame,
                         counter |-> resetCounter]
      BY <1>5 DEF HandleSample, Publish
    <2>3. Forwarded(sel.pick, sample) \in [time : 0 .. MaxTime, frame : 0 .. MaxFrames]
      BY <1>1 DEF Forwarded, TypeOK
    <2>4. sent' \in [time : 0 .. MaxTime, frame : 0 .. MaxFrames, counter : 0 .. Counters - 1]
      BY <2>2, <2>3 DEF TypeOK
    <2>5. rate' \in [since : 0 .. MaxTime, sent : Nat, steady : BOOLEAN]
      <3>1. CASE selector.prev = NoTime
        BY <1>1, <2>2, <3>1 DEF RateAfter
      <3>2. CASE selector.prev # NoTime
        <4>1. rate \in [since : 0 .. MaxTime, sent : Nat, steady : BOOLEAN]
          BY DEF TypeOK
        <4>2. rate'.since = rate.since /\ rate'.sent \in {rate.sent, rate.sent + 1}
          BY <2>2, <3>2, <4>1 DEF RateAfter
        <4>3. rate'.steady = (rate.steady /\ t - selector.prev =< Interval)
          BY <2>2, <3>2, <4>1 DEF RateAfter
        <4>4. rate' = [since |-> rate'.since, sent |-> rate'.sent, steady |-> rate'.steady]
          BY <2>2, <3>2, <4>1 DEF RateAfter
        <4>5. rate'.steady \in BOOLEAN
          BY <4>3
        <4> QED
          BY <4>1, <4>2, <4>4, <4>5
      <3> QED
        BY <3>1, <3>2
    <2> QED
      BY <1>1, <1>2, <1>3, <2>1, <2>2, <2>4, <2>5 DEF TypeOK
  <1> QED
    BY <1>4, <1>5 DEF HandleOdometry

(* Type correctness of handleOdometry and SampleRateSelector: the target is    *)
(* never more than a period beyond the stamps, over resets and restarts.       *)
THEOREM TypeCorrect == Spec => []TypeOK
  <1>1. Init => TypeOK
    BY IntervalAssumption, CountersAssumption, BoundsAssumption
    DEF Init, TypeOK, NoTime, EmptySelector, NoSample
  <1>2. TypeOK /\ [Next]_vars => TypeOK'
    <2> SUFFICES ASSUME TypeOK, [Next]_vars PROVE TypeOK'
      OBVIOUS
    <2>1. ASSUME NEW t \in Times, HandleOdometry(t) PROVE TypeOK'
      BY <2>1, HandledTyped
    <2>2. ASSUME NEW t \in Times, MissSample(t) PROVE TypeOK'
      BY <2>2, BoundsAssumption DEF MissSample, TypeOK, bridge, Times
    <2>3. ASSUME NEW restamped \in BOOLEAN, ChangeFrame(restamped) PROVE TypeOK'
      <3>1. counter' \in 0 .. Counters - 1
        BY <2>3, CountsUp, CountersAssumption DEF ChangeFrame, TypeOK
      <3> QED
        BY <2>3, <3>1, BoundsAssumption, CountersAssumption
        DEF ChangeFrame, TypeOK, bridge, NoTime
    <2>4. CASE RestartFrontEnd
      BY <2>4, BoundsAssumption, CountersAssumption DEF RestartFrontEnd, TypeOK, bridge, NoTime
    <2>5. CASE RestartBridge
      BY <2>5, IntervalAssumption, BoundsAssumption, CountersAssumption
      DEF RestartBridge, TypeOK, source, EmptySelector, NoSample, NoTime
    <2>6. CASE UNCHANGED vars
      BY <2>6 DEF vars, source, bridge, TypeOK
    <2> QED
      BY <2>1, <2>2, <2>3, <2>4, <2>5, <2>6 DEF Next
  <1> QED
    BY <1>1, <1>2, PTL DEF Spec
=============================================================================
