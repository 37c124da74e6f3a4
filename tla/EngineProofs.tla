----------------------------- MODULE EngineProofs -----------------------------
(*****************************************************************************)
(* Theorems about what the nodes show of an engine: RampedSpeed, for any     *)
(* nodes, speeds and steps, and LaunchCountdown, for any countdown threads   *)
(* and ticks.                                                                *)
(*****************************************************************************)
EXTENDS LaunchCountdown, RampedSpeed, TLAPS

-----------------------------------------------------------------------------
(* Types                                                                    *)

LEMMA RampFacts ==
  /\ TopSpeed \in Nat /\ RampInc \in 1 .. 3 /\ RampAsks \in Nat
  /\ Speed \subseteq Int /\ \A s \in Speed : 0 <= s /\ s <= TopSpeed
  /\ 0 \in Speed
BY RampAssumption DEF Speed

LEMMA OrderTypes ==
  /\ \A s \in Speed, n \in RampNodes :
       OrderOf("speed", s, n) \in Order /\ OrderOf("target", s, n) \in Order
  /\ \A n \in RampNodes, cmd \in {"stop", "halt"} \cup Direction : OrderOf(cmd, 0, n) \in Order
  /\ \A c \in Order :
       /\ c.cmd \in {"speed", "target", "stop", "halt"} \cup Direction
       /\ c.speed \in Speed /\ c.from \in RampNodes
BY RampFacts DEF Order, OrderOf

\* The steps of a ramp are speeds of the engine (ramped_speed_req.py).
LEMMA StepsAreSpeeds ==
  ASSUME NEW from \in Speed, NEW to \in Speed
  PROVE  RampSteps(from, to) \in Seq(Speed)
<1>1. RampInc \in {1, 2, 3} /\ from \in Int /\ to \in Int /\ TopSpeed \in Nat
  BY RampFacts
<1>2. CASE from < to
  <2> DEFINE k == (to - from) \div RampInc
             up == [i \in 1 .. k |-> from + i * RampInc]
  <2>1. k \in Nat /\ \A i \in 1 .. k : from + i * RampInc \in Speed
    <3>1. CASE RampInc = 1
      BY <1>1, <1>2, <3>1 DEF Speed
    <3>2. CASE RampInc = 2
      BY <1>1, <1>2, <3>2 DEF Speed
    <3>3. CASE RampInc = 3
      BY <1>1, <1>2, <3>3 DEF Speed
    <3> QED
      BY <1>1, <3>1, <3>2, <3>3
  <2> HIDE DEF k
  <2>2. up \in Seq(Speed)
    BY <2>1
  <2> QED
    BY <1>2, <2>2 DEF RampSteps, k
<1>3. CASE ~(from < to)
  <2> DEFINE first == from - RampInc
             last == to + 2
             k == IF first < last THEN 0 ELSE (first - last) \div RampInc + 1
             down == [i \in 1 .. k |-> first - (i - 1) * RampInc]
  <2>1. k \in Nat /\ \A i \in 1 .. k : first - (i - 1) * RampInc \in Speed
    <3>1. CASE RampInc = 1
      BY <1>1, <1>3, <3>1 DEF Speed
    <3>2. CASE RampInc = 2
      BY <1>1, <1>3, <3>2 DEF Speed
    <3>3. CASE RampInc = 3
      BY <1>1, <1>3, <3>3 DEF Speed
    <3> QED
      BY <1>1, <3>1, <3>2, <3>3
  <2> HIDE DEF k, first
  <2>2. down \in Seq(Speed)
    BY <2>1
  <2> QED
    BY <1>3, <2>2 DEF RampSteps, k, first
<1> QED
  BY <1>2, <1>3

\* What a node shows of an engine: a ramp is on its way to another speed, and the last
\* command has left its mark.
Marked(v) ==
  /\ v.last[1] = "speed" => v.speed = v.last[2]
  /\ v.last[1] = "target" => v.target = v.last[2]
  /\ v.last[1] \in {"stop", "halt"} => ~v.ramping
  /\ v.last[1] \in Direction => v.direction = v.last[1]
Shown == {v \in EngineStates : (v.ramping <=> v.target # v.speed) /\ Marked(v)}

\* What a report makes of an engine's state (UpdateEngine).
After(e, c) == IF Repeated(e, c) THEN e ELSE [Updated(e, c) EXCEPT !.last = <<c.cmd, c.speed>>]

LEMMA HelpersKeepTypes ==
  ASSUME NEW e \in EngineStates, NEW s \in Speed
  PROVE  /\ RampsCancelled(e) \in EngineStates
         /\ NewTarget(e, s) \in EngineStates
         /\ SpeedSet(e, s) \in EngineStates
<1>1. TargetFollows([e EXCEPT !.speed = s]) \in EngineStates
  BY DEF TargetFollows, EngineStates
<1> QED
  BY <1>1 DEF RampsCancelled, NewTarget, SpeedSet, EngineStates

LEMMA UpdatedType ==
  ASSUME NEW e \in EngineStates, NEW c \in Order
  PROVE  Updated(e, c) \in EngineStates /\ After(e, c) \in EngineStates
<1> DEFINE d == IF Cancels(e, c) THEN RampsCancelled(e) ELSE e
<1>0. c.speed \in Speed /\ 0 \in Speed /\ c.cmd \in {"speed", "target", "stop", "halt"} \cup Direction
  BY OrderTypes, RampFacts
<1>1. d \in EngineStates
  BY <1>0, HelpersKeepTypes
<1> HIDE DEF d
<1>2. SpeedSet(d, 0) \in EngineStates /\ SpeedSet(d, c.speed) \in EngineStates
      /\ NewTarget(d, c.speed) \in EngineStates
  BY <1>0, <1>1, HelpersKeepTypes
<1>3. [e EXCEPT !.speed = 0, !.target = 0, !.ramping = FALSE] \in EngineStates
  BY <1>0 DEF EngineStates
<1>4. c.cmd \in Direction => SpeedSet([d EXCEPT !.direction = c.cmd], 0) \in EngineStates
  <2>1. c.cmd \in Direction => [d EXCEPT !.direction = c.cmd] \in EngineStates
    BY <1>1 DEF EngineStates
  <2> QED
    BY <1>0, <2>1, HelpersKeepTypes
<1>5. Updated(e, c) \in EngineStates
  BY <1>0, <1>1, <1>2, <1>3, <1>4 DEF Updated, d, Direction
<1>6. <<c.cmd, c.speed>> \in ({"none", "speed", "target", "stop", "halt"} \cup Direction) \X Speed
  BY <1>0
<1>7. \A u \in EngineStates : [u EXCEPT !.last = <<c.cmd, c.speed>>] \in EngineStates
  BY <1>6 DEF EngineStates
<1> QED
  BY <1>5, <1>7 DEF After

LEMMA RampTypeStep ==
  ASSUME RampTypeOK, [RampNext]_rampVars
  PROVE  RampTypeOK'
<1> USE DEF RampTypeOK
<1>1. CASE Report
  <2>1. Head(bus) \in Order /\ Tail(bus) \in Seq(Order)
    BY <1>1 DEF Report
  <2>2. \A n \in RampNodes : Append(told[n], Head(bus)) \in Seq(Order)
    BY <2>1
  <2> QED
    BY <1>1, <2>1, <2>2 DEF Report
<1>2. ASSUME NEW n \in RampNodes, NEW s \in Speed, AskRamp(n, s)
      PROVE  RampTypeOK'
  <2> DEFINE target == OrderOf("target", s, n)
             step == OrderOf("speed", s, n)
  <2>1. target \in Order /\ step \in Order
    BY OrderTypes
  <2>2. RampsCancelled(engine[n]) \in EngineStates
    BY HelpersKeepTypes
  <2>3. RampSteps(engine[n].speed, s) \in Seq(Speed)
    BY StepsAreSpeeds DEF EngineStates
  <2>4. RampSteps(engine[n].speed, s) \o <<s>> \in Seq(Speed) /\ << >> \in Seq(Speed)
    BY <2>3
  <2>5. Append(bus, target) \in Seq(Order) /\ bus \o <<target, step>> \in Seq(Order)
    BY <2>1
  <2> HIDE DEF target, step
  <2>6. /\ engine' \in [RampNodes -> EngineStates] /\ bus' \in Seq(Order) /\ told' = told
        /\ rampsWaiting' \in [RampNodes -> Seq(Speed)]
    BY <1>2, <2>2, <2>4, <2>5 DEF AskRamp, target, step
  <2>7. rampsAsked' \in 0 .. RampAsks /\ lastAsk' \in Order
    BY <1>2, <2>1, RampFacts DEF AskRamp, Asking, target
  <2> QED
    BY <2>6, <2>7
<1>3. ASSUME NEW n \in RampNodes, NEW s \in Speed, NEW cmd,
             cmd = "speed" \/ (s = 0 /\ cmd \in {"stop", "halt"} \cup Direction),
             AskPlain(n, cmd, s) \/ (cmd = "stop" /\ AskStop(n))
      PROVE  RampTypeOK'
  <2>1. OrderOf(cmd, s, n) \in Order
    BY <1>3, OrderTypes
  <2>2. Append(bus, OrderOf(cmd, s, n)) \in Seq(Order) /\ << >> \in Seq(Speed)
    BY <2>1
  <2>3. /\ bus' = Append(bus, OrderOf(cmd, s, n)) /\ UNCHANGED <<engine, told>>
        /\ lastAsk' = OrderOf(cmd, s, n) /\ rampsAsked' \in 0 .. RampAsks
        /\ rampsWaiting' \in [RampNodes -> Seq(Speed)]
    <3>1. CASE AskPlain(n, cmd, s)
      BY <3>1, RampFacts DEF AskPlain, Asking
    <3>2. CASE cmd = "stop" /\ AskStop(n)
      BY <1>3, <2>2, <3>2, RampFacts DEF AskStop, Asking
    <3> QED
      BY <1>3, <3>1, <3>2
  <2> QED
    BY <2>1, <2>2, <2>3
<1>4. ASSUME NEW n \in RampNodes, SendStep(n)
      PROVE  RampTypeOK'
  <2>1. Head(rampsWaiting[n]) \in Speed /\ Tail(rampsWaiting[n]) \in Seq(Speed)
    BY <1>4 DEF SendStep
  <2>2. OrderOf("speed", Head(rampsWaiting[n]), n) \in Order
    BY <2>1, OrderTypes
  <2>3. bus' \in Seq(Order)
    BY <1>4, <2>2 DEF SendStep
  <2> QED
    BY <1>4, <2>1, <2>3 DEF SendStep
<1>5. ASSUME NEW n \in RampNodes, UpdateEngine(n)
      PROVE  RampTypeOK'
  <2>1. Head(told[n]) \in Order /\ Tail(told[n]) \in Seq(Order) /\ << >> \in Seq(Speed)
    BY <1>5 DEF UpdateEngine
  <2>2. After(engine[n], Head(told[n])) \in EngineStates
    BY <2>1, UpdatedType
  <2>3. engine' = [engine EXCEPT ![n] = After(engine[n], Head(told[n]))]
    BY <1>5 DEF UpdateEngine, After
  <2>4. rampsWaiting' \in [RampNodes -> Seq(Speed)] /\ told' \in [RampNodes -> Seq(Order)]
    BY <1>5, <2>1 DEF UpdateEngine
  <2> QED
    BY ZenonT(60), <1>5, <2>2, <2>3, <2>4 DEF UpdateEngine
<1>6. CASE UNCHANGED rampVars
  BY <1>6 DEF rampVars
<1>7. 0 \in Speed
  BY RampFacts
<1> QED
  BY <1>1, <1>2, <1>3, <1>4, <1>5, <1>6, <1>7 DEF RampNext

LEMMA RampTypeInit == RampInit => RampTypeOK
<1> SUFFICES ASSUME RampInit PROVE RampTypeOK
  OBVIOUS
<1>1. [speed |-> 0, target |-> 0, ramping |-> FALSE, direction |-> "forward",
       last |-> <<"none", 0>>] \in EngineStates
  BY RampFacts DEF EngineStates, Direction
<1>2. << >> \in Seq(Order) /\ << >> \in Seq(Speed)
  OBVIOUS
<1>3. lastAsk \in Order
  BY OrderTypes DEF RampInit
<1> QED
  BY <1>1, <1>2, <1>3, RampFacts DEF RampInit, RampTypeOK

\* The engine's states, the orders and the steps keep their types, for any nodes, speeds
\* and increments (EngineState, RampedSpeedReq).
THEOREM RampTypeCorrect == RampSpec => []RampTypeOK
<1>1. RampInit => RampTypeOK
  BY RampTypeInit
<1>2. RampTypeOK /\ [RampNext]_rampVars => RampTypeOK'
  BY RampTypeStep
<1> QED
  BY <1>1, <1>2, PTL DEF RampSpec

-----------------------------------------------------------------------------
(* Stops                                                                    *)

Has(q, kind) == \E i \in 1 .. Len(q) : q[i].cmd = kind

\* What waits at a node is younger than the last stop that the node has seen, or is
\* going to be: the stop will not be taken for a repetition of the last one.
NotRepeated ==
  \A n \in RampNodes : rampsWaiting[n] # << >> =>
    engine[n].last[1] # "stop" \/ Has(Line(n), "target")

\* A stop or a halt that nothing was asked for since is on its way to every node with steps.
StopComes ==
  lastAsk.cmd \in {"stop", "halt"} =>
    \A n \in RampNodes :
      /\ rampsWaiting[n] # << >> => Has(Line(n), lastAsk.cmd)
      /\ \A i \in 1 .. Len(Line(n)) : Line(n)[i].cmd = "target" =>
           \E k \in i + 1 .. Len(Line(n)) : Line(n)[k].cmd = lastAsk.cmd

StopperIsEmpty == lastAsk.cmd = "stop" => rampsWaiting[lastAsk.from] = << >>

StopInv == RampTypeOK /\ NotRepeated /\ StopComes /\ StopperIsEmpty /\ NoStepBehindOwnStop

LEMMA LineType ==
  ASSUME RampTypeOK, NEW n \in RampNodes
  PROVE  Line(n) \in Seq(Order) /\ Len(Line(n)) \in Nat
BY DEF RampTypeOK, Line

\* An order joins all lines at their end.
LEMMA LineGrows ==
  ASSUME RampTypeOK, NEW o \in Order, told' = told, bus' = Append(bus, o), NEW n \in RampNodes
  PROVE  Line(n)' = Append(Line(n), o)
BY DEF RampTypeOK, Line

LEMMA LineStays ==
  ASSUME RampTypeOK, Report, NEW n \in RampNodes
  PROVE  Line(n)' = Line(n)
<1>1. bus \in Seq(Order) /\ bus # << >> /\ told[n] \in Seq(Order)
  BY DEF RampTypeOK, Report
<1>2. told'[n] = Append(told[n], Head(bus)) /\ bus' = Tail(bus)
  BY DEF Report
<1>3. Append(told[n], Head(bus)) \o Tail(bus) = told[n] \o bus
  BY <1>1
<1> QED
  BY <1>2, <1>3 DEF Line

LEMMA LineMoves ==
  ASSUME RampTypeOK, NEW m \in RampNodes, UpdateEngine(m)
  PROVE  /\ Line(m) # << >> /\ Head(Line(m)) = Head(told[m]) /\ Line(m)' = Tail(Line(m))
         /\ \A n \in RampNodes \ {m} : Line(n)' = Line(n)
<1>1. bus \in Seq(Order) /\ told[m] \in Seq(Order) /\ told[m] # << >>
  BY DEF RampTypeOK, UpdateEngine
<1>2. told' = [told EXCEPT ![m] = Tail(told[m])] /\ bus' = bus /\ told \in [RampNodes -> Seq(Order)]
  BY DEF UpdateEngine, RampTypeOK
<1>3. /\ told[m] \o bus # << >> /\ Head(told[m] \o bus) = Head(told[m])
      /\ Tail(told[m]) \o bus = Tail(told[m] \o bus)
  BY SMTT(60), <1>1
<1> QED
  BY <1>2, <1>3 DEF Line

LEMMA TailHas ==
  ASSUME NEW q \in Seq(Order), q # << >>, NEW kind, Has(q, kind), Head(q).cmd # kind
  PROVE  Has(Tail(q), kind)
<1>1. PICK i \in 1 .. Len(q) : q[i].cmd = kind
  BY DEF Has
<1>2. i # 1 /\ Len(Tail(q)) = Len(q) - 1 /\ \A j \in 1 .. Len(Tail(q)) : Tail(q)[j] = q[j + 1]
  BY <1>1
<1>3. i - 1 \in 1 .. Len(Tail(q)) /\ Tail(q)[i - 1] = q[i]
  BY <1>1, <1>2
<1> QED
  BY <1>1, <1>3 DEF Has

LEMMA HasGrows ==
  ASSUME NEW q \in Seq(Order), NEW o \in Order
  PROVE  /\ Has(Append(q, o), o.cmd) /\ \A kind : Has(q, kind) => Has(Append(q, o), kind)
         /\ \A kind : Has(Append(q, o), kind) => Has(q, kind) \/ o.cmd = kind
<1>1. /\ Len(Append(q, o)) = Len(q) + 1 /\ Append(q, o)[Len(q) + 1] = o /\ Len(q) \in Nat
      /\ \A i \in 1 .. Len(q) : Append(q, o)[i] = q[i]
  OBVIOUS
<1> QED
  BY <1>1 DEF Has

\* The orders of a kind, each with one of another kind behind it.
Followed(q, P, R) == \A i \in 1 .. Len(q) : q[i] \in P => \E k \in i + 1 .. Len(q) : q[k] \in R

LEMMA FollowedGrows ==
  ASSUME NEW q \in Seq(Order), NEW o \in Order, NEW P, NEW R, Followed(q, P, R), o \notin P
  PROVE  Followed(Append(q, o), P, R)
<1>1. /\ Len(Append(q, o)) = Len(q) + 1 /\ Append(q, o)[Len(q) + 1] = o /\ Len(q) \in Nat
      /\ \A i \in 1 .. Len(q) : Append(q, o)[i] = q[i]
  OBVIOUS
<1> SUFFICES ASSUME NEW i \in 1 .. Len(q) + 1, Append(q, o)[i] \in P
             PROVE  \E k \in i + 1 .. Len(q) + 1 : Append(q, o)[k] \in R
  BY <1>1 DEF Followed
<1>2. i \in 1 .. Len(q) /\ q[i] \in P
  BY <1>1
<1>3. PICK k \in i + 1 .. Len(q) : q[k] \in R
  BY <1>2 DEF Followed
<1> QED
  BY <1>1, <1>2, <1>3

LEMMA FollowedByLast ==
  ASSUME NEW q \in Seq(Order), NEW o \in Order, NEW P, NEW R, o \in R, o \notin P
  PROVE  Followed(Append(q, o), P, R)
<1>1. /\ Len(Append(q, o)) = Len(q) + 1 /\ Append(q, o)[Len(q) + 1] = o /\ Len(q) \in Nat
      /\ \A i \in 1 .. Len(q) : Append(q, o)[i] = q[i]
  OBVIOUS
<1> QED
  BY <1>1 DEF Followed

LEMMA FollowedTail ==
  ASSUME NEW q \in Seq(Order), q # << >>, NEW P, NEW R, Followed(q, P, R)
  PROVE  Followed(Tail(q), P, R)
<1>1. Len(Tail(q)) = Len(q) - 1 /\ Len(q) \in Nat /\ \A j \in 1 .. Len(Tail(q)) : Tail(q)[j] = q[j + 1]
  OBVIOUS
<1> SUFFICES ASSUME NEW i \in 1 .. Len(q) - 1, Tail(q)[i] \in P
             PROVE  \E k \in i + 1 .. Len(q) - 1 : Tail(q)[k] \in R
  BY <1>1 DEF Followed
<1>2. i + 1 \in 1 .. Len(q) /\ q[i + 1] \in P
  BY <1>1
<1>3. PICK k \in i + 2 .. Len(q) : q[k] \in R
  BY <1>2 DEF Followed
<1>4. k - 1 \in i + 1 .. Len(q) - 1 /\ Tail(q)[k - 1] = q[k]
  BY <1>1, <1>3
<1> QED
  BY <1>3, <1>4

Ordered(kind) == {o \in Order : o.cmd = kind}
StepsOf(n) == {o \in Order : o.cmd = "speed" /\ o.from = n}

LEMMA StopsAsFollowed ==
  ASSUME RampTypeOK
  PROVE  /\ NoStepBehindOwnStop <=>
              (lastAsk.cmd = "stop" =>
                 \A n \in RampNodes : Followed(Line(n), StepsOf(lastAsk.from), {lastAsk}))
         /\ StopComes <=>
              (lastAsk.cmd \in {"stop", "halt"} =>
                 \A n \in RampNodes :
                   /\ rampsWaiting[n] # << >> => Has(Line(n), lastAsk.cmd)
                   /\ Followed(Line(n), Ordered("target"), Ordered(lastAsk.cmd)))
<1>1. \A n \in RampNodes : Line(n) \in Seq(Order) /\ Len(Line(n)) \in Nat
  BY LineType
<1>2. \A n \in RampNodes : \A i \in 1 .. Len(Line(n)) : Line(n)[i] \in Order
  BY <1>1
<1>3. \A n \in RampNodes : Followed(Line(n), StepsOf(lastAsk.from), {lastAsk}) <=>
        \A i \in 1 .. Len(Line(n)) : Line(n)[i].cmd = "speed" /\ Line(n)[i].from = lastAsk.from
            => \E k \in i + 1 .. Len(Line(n)) : Line(n)[k] = lastAsk
  BY <1>2 DEF Followed, StepsOf
<1>4. \A n \in RampNodes : Followed(Line(n), Ordered("target"), Ordered(lastAsk.cmd)) <=>
        \A i \in 1 .. Len(Line(n)) : Line(n)[i].cmd = "target" =>
           \E k \in i + 1 .. Len(Line(n)) : Line(n)[k].cmd = lastAsk.cmd
  <2> SUFFICES ASSUME NEW n \in RampNodes
               PROVE  Followed(Line(n), Ordered("target"), Ordered(lastAsk.cmd)) <=>
                 \A i \in 1 .. Len(Line(n)) : Line(n)[i].cmd = "target" =>
                   \E k \in i + 1 .. Len(Line(n)) : Line(n)[k].cmd = lastAsk.cmd
    OBVIOUS
  <2>1. \A i \in 1 .. Len(Line(n)) : \A kind : Line(n)[i] \in Ordered(kind) <=> Line(n)[i].cmd = kind
    BY <1>2 DEF Ordered
  <2>2. \A i \in 1 .. Len(Line(n)) : \A k \in i + 1 .. Len(Line(n)) : k \in 1 .. Len(Line(n))
    BY <1>1
  <2> QED
    BY <2>1, <2>2 DEF Followed
<1> QED
  BY <1>3, <1>4 DEF NoStepBehindOwnStop, StopComes

\* What a report leaves as the last command.
LEMMA LastMarks ==
  ASSUME NEW e \in EngineStates, NEW c \in Order
  PROVE  /\ After(e, c).last = <<c.cmd, c.speed>>
         /\ e.last[1] = "stop" /\ c.cmd # "stop" => After(e, c).last[1] # "stop"
         /\ c.cmd = "halt" => DropsSteps(e, c)
         /\ c.cmd = "stop" /\ e.last[1] # "stop" => DropsSteps(e, c)
<1>1. CASE Repeated(e, c)
  BY <1>1 DEF After, Repeated, DropsSteps, Cancels
<1>2. CASE ~Repeated(e, c)
  <2>1. Updated(e, c) \in EngineStates
    BY UpdatedType
  <2>2. [Updated(e, c) EXCEPT !.last = <<c.cmd, c.speed>>].last = <<c.cmd, c.speed>>
    BY <2>1 DEF EngineStates
  <2> QED
    BY <1>2, <2>2 DEF After, Repeated, DropsSteps, Cancels
<1> QED
  BY <1>1, <1>2

\* One more order on the line.
LEMMA StopInvGrows ==
  ASSUME StopInv, RampTypeOK', NEW o \in Order, told' = told, bus' = Append(bus, o),
         \A n \in RampNodes : engine'[n].last = engine[n].last,
         \/ /\ lastAsk' = lastAsk /\ o.cmd # "target"
            /\ \A n \in RampNodes : rampsWaiting'[n] # << >> => rampsWaiting[n] # << >>
            /\ o.cmd = "speed" => rampsWaiting[o.from] # << >>
         \/ /\ lastAsk' = o
            /\ \A n \in RampNodes : rampsWaiting'[n] # << >> => rampsWaiting[n] # << >> \/ o.cmd = "target"
            /\ o.cmd = "stop" => rampsWaiting'[o.from] = << >>
  PROVE  StopInv'
<1>1. \A n \in RampNodes : Line(n) \in Seq(Order) /\ Line(n)' = Append(Line(n), o)
  BY LineType, LineGrows DEF StopInv
<1>2. \A n \in RampNodes :
        /\ Has(Line(n)', o.cmd)
        /\ \A kind : Has(Line(n), kind) => Has(Line(n)', kind)
  <2> SUFFICES ASSUME NEW n \in RampNodes
               PROVE  /\ Has(Append(Line(n), o), o.cmd)
                      /\ \A kind : Has(Line(n), kind) => Has(Append(Line(n), o), kind)
    BY <1>1
  <2> QED
    BY <1>1, HasGrows
<1>3. NotRepeated'
  BY <1>2 DEF StopInv, NotRepeated
<1>4. StopperIsEmpty'
  <2>1. lastAsk.from \in RampNodes
    BY OrderTypes DEF StopInv, RampTypeOK
  <2> QED
    BY <2>1 DEF StopInv, StopperIsEmpty
<1>5. CASE lastAsk' = lastAsk /\ o.cmd # "target" /\ (o.cmd = "speed" => rampsWaiting[o.from] # << >>)
           /\ \A n \in RampNodes : rampsWaiting'[n] # << >> => rampsWaiting[n] # << >>
  <2>1. \A n \in RampNodes :
           lastAsk.cmd = "stop" => Followed(Line(n)', StepsOf(lastAsk.from), {lastAsk})
    <3> SUFFICES ASSUME NEW n \in RampNodes, lastAsk.cmd = "stop"
                 PROVE  Followed(Line(n)', StepsOf(lastAsk.from), {lastAsk})
      OBVIOUS
    <3>1. o \notin StepsOf(lastAsk.from)
      BY <1>5 DEF StopInv, StopperIsEmpty, StepsOf
    <3>2. Followed(Line(n), StepsOf(lastAsk.from), {lastAsk})
      BY StopsAsFollowed DEF StopInv
    <3> QED
      BY <1>1, <3>1, <3>2, FollowedGrows
  <2>2. \A n \in RampNodes :
           lastAsk.cmd \in {"stop", "halt"} => Followed(Line(n)', Ordered("target"), Ordered(lastAsk.cmd))
    <3> SUFFICES ASSUME NEW n \in RampNodes, lastAsk.cmd \in {"stop", "halt"}
                 PROVE  Followed(Line(n)', Ordered("target"), Ordered(lastAsk.cmd))
      OBVIOUS
    <3>1. o \notin Ordered("target")
      BY <1>5 DEF Ordered
    <3>2. Followed(Line(n), Ordered("target"), Ordered(lastAsk.cmd))
      BY StopsAsFollowed DEF StopInv
    <3> QED
      BY <1>1, <3>1, <3>2, FollowedGrows
  <2>3. \A n \in RampNodes : lastAsk.cmd \in {"stop", "halt"} /\ rampsWaiting[n] # << >> =>
           Has(Line(n)', lastAsk.cmd)
    BY <1>2 DEF StopInv, StopComes, Has
  <2>4. NoStepBehindOwnStop' /\ StopComes'
    <3>1. (NoStepBehindOwnStop <=>
              (lastAsk.cmd = "stop" =>
                 \A n \in RampNodes : Followed(Line(n), StepsOf(lastAsk.from), {lastAsk})))'
          /\ (StopComes <=>
              (lastAsk.cmd \in {"stop", "halt"} =>
                 \A n \in RampNodes :
                   /\ rampsWaiting[n] # << >> => Has(Line(n), lastAsk.cmd)
                   /\ Followed(Line(n), Ordered("target"), Ordered(lastAsk.cmd))))'
      BY StopsAsFollowed, PTL
    <3> QED
      BY <1>5, <2>1, <2>2, <2>3, <3>1
  <2> QED
    BY <1>3, <1>4, <2>4 DEF StopInv
<1>6. CASE lastAsk' = o
  <2>1. \A n \in RampNodes : o.cmd = "stop" => Followed(Line(n)', StepsOf(o.from), {o})
    <3>1. o.cmd = "stop" => o \notin StepsOf(o.from)
      BY DEF StepsOf
    <3> QED
      BY <1>1, <3>1, FollowedByLast
  <2>2. \A n \in RampNodes : o.cmd \in {"stop", "halt"} => Followed(Line(n)', Ordered("target"), Ordered(o.cmd))
    <3>1. o.cmd \in {"stop", "halt"} => o \notin Ordered("target") /\ o \in Ordered(o.cmd)
      BY DEF Ordered
    <3> QED
      BY <1>1, <3>1, FollowedByLast
  <2>4. NoStepBehindOwnStop' /\ StopComes'
    <3>1. (NoStepBehindOwnStop <=>
              (lastAsk.cmd = "stop" =>
                 \A n \in RampNodes : Followed(Line(n), StepsOf(lastAsk.from), {lastAsk})))'
          /\ (StopComes <=>
              (lastAsk.cmd \in {"stop", "halt"} =>
                 \A n \in RampNodes :
                   /\ rampsWaiting[n] # << >> => Has(Line(n), lastAsk.cmd)
                   /\ Followed(Line(n), Ordered("target"), Ordered(lastAsk.cmd))))'
      BY StopsAsFollowed, PTL
    <3> QED
      BY <1>2, <1>6, <2>1, <2>2, <3>1
  <2> QED
    BY <1>3, <1>4, <2>4 DEF StopInv
<1> QED
  BY <1>5, <1>6

LEMMA StopInvUpdate ==
  ASSUME StopInv, RampTypeOK', NEW m \in RampNodes, UpdateEngine(m)
  PROVE  StopInv'
<1> DEFINE c == Head(told[m])
           q == Line(m)
<1>1. c \in Order /\ engine[m] \in EngineStates
  BY DEF StopInv, RampTypeOK, UpdateEngine
<1>2. /\ q \in Seq(Order) /\ q # << >> /\ Head(q) = c /\ Line(m)' = Tail(q)
      /\ \A n \in RampNodes : Line(n) \in Seq(Order)
      /\ \A n \in RampNodes \ {m} : Line(n)' = Line(n)
  BY LineMoves, LineType DEF StopInv
<1>3. /\ \A n \in RampNodes \ {m} : rampsWaiting'[n] = rampsWaiting[n] /\ engine'[n] = engine[n]
      /\ engine'[m] = After(engine[m], c)
      /\ rampsWaiting'[m] = IF DropsSteps(engine[m], c) THEN << >> ELSE rampsWaiting[m]
      /\ lastAsk' = lastAsk
  BY DEF UpdateEngine, StopInv, RampTypeOK, After
<1> HIDE DEF c, q
<1>4. NotRepeated'
  <2> SUFFICES ASSUME NEW n \in RampNodes, rampsWaiting'[n] # << >>
               PROVE  engine'[n].last[1] # "stop" \/ Has(Line(n)', "target")
    BY DEF NotRepeated
  <2>1. CASE n # m
    BY <1>2, <1>3, <2>1 DEF StopInv, NotRepeated
  <2>2. CASE n = m
    <3>1. rampsWaiting[m] # << >> /\ ~DropsSteps(engine[m], c)
      BY <1>3, <2>2
    <3>2. CASE engine[m].last[1] # "stop"
      BY <1>1, <1>3, <2>2, <3>1, <3>2, LastMarks
    <3>3. CASE engine[m].last[1] = "stop" /\ c.cmd # "stop"
      BY <1>1, <1>3, <2>2, <3>3, LastMarks
    <3>4. CASE engine[m].last[1] = "stop" /\ c.cmd = "stop"
      <4>1. Has(q, "target")
        BY <3>1, <3>4 DEF StopInv, NotRepeated, q
      <4>2. Has(Tail(q), "target")
        BY <1>2, <3>4, <4>1, TailHas
      <4> QED
        BY <1>2, <2>2, <4>2
    <3> QED
      BY <3>2, <3>3, <3>4
  <2> QED
    BY <2>1, <2>2
<1>5. StopperIsEmpty'
  <2>1. lastAsk.from \in RampNodes
    BY OrderTypes DEF StopInv, RampTypeOK
  <2> QED
    BY <1>3, <2>1 DEF StopInv, StopperIsEmpty
<1>6. ASSUME NEW n \in RampNodes, NEW P, NEW R, Followed(Line(n), P, R)
      PROVE  Followed(Line(n)', P, R)
  <2>1. CASE n # m
    BY <1>2, <1>6, <2>1
  <2>2. CASE n = m
    BY <1>2, <1>6, <2>2, FollowedTail DEF q
  <2> QED
    BY <2>1, <2>2
<1>7. \A n \in RampNodes : lastAsk.cmd = "stop" => Followed(Line(n)', StepsOf(lastAsk.from), {lastAsk})
  BY <1>6, StopsAsFollowed DEF StopInv
<1>8. \A n \in RampNodes :
         lastAsk.cmd \in {"stop", "halt"} => Followed(Line(n)', Ordered("target"), Ordered(lastAsk.cmd))
  BY <1>6, StopsAsFollowed DEF StopInv
<1>9. \A n \in RampNodes :
         lastAsk.cmd \in {"stop", "halt"} /\ rampsWaiting'[n] # << >> => Has(Line(n)', lastAsk.cmd)
  <2> SUFFICES ASSUME NEW n \in RampNodes, lastAsk.cmd \in {"stop", "halt"}, rampsWaiting'[n] # << >>
               PROVE  Has(Line(n)', lastAsk.cmd)
    OBVIOUS
  <2>1. Has(Line(n), lastAsk.cmd)
    BY <1>3 DEF StopInv, StopComes, Has
  <2>2. CASE n # m
    BY <1>2, <2>1, <2>2
  <2>3. CASE n = m /\ c.cmd # lastAsk.cmd
    BY <1>2, <2>1, <2>3, TailHas DEF q
  <2>4. CASE n = m /\ c.cmd = lastAsk.cmd
    <3>1. ~DropsSteps(engine[m], c) /\ rampsWaiting[m] # << >>
      BY <1>3, <2>4
    <3>2. c.cmd = "stop" /\ engine[m].last[1] = "stop"
      BY <1>1, <2>4, <3>1, LastMarks
    <3>3. Has(q, "target")
      BY <3>1, <3>2 DEF StopInv, NotRepeated, q
    <3>4. PICK i \in 1 .. Len(Tail(q)) : Tail(q)[i].cmd = "target"
      BY <1>2, <3>2, <3>3, TailHas DEF Has
    <3>5. Tail(q) \in Seq(Order) /\ Len(Tail(q)) \in Nat
      BY <1>2
    <3>6. Followed(Tail(q), Ordered("target"), Ordered(lastAsk.cmd))
      BY <1>2, <1>8, <2>4
    <3>7. Tail(q)[i] \in Ordered("target")
      BY <3>4, <3>5 DEF Ordered
    <3>8. PICK k \in i + 1 .. Len(Tail(q)) : Tail(q)[k] \in Ordered(lastAsk.cmd)
      BY <3>6, <3>7 DEF Followed
    <3>9. k \in 1 .. Len(Tail(q)) /\ Tail(q)[k].cmd = lastAsk.cmd
      BY <3>5, <3>8 DEF Ordered
    <3> QED
      BY <1>2, <2>4, <3>9 DEF Has
  <2> QED
    BY <2>2, <2>3, <2>4
<1>10. NoStepBehindOwnStop' /\ StopComes'
  <2>1. (NoStepBehindOwnStop <=>
            (lastAsk.cmd = "stop" =>
               \A n \in RampNodes : Followed(Line(n), StepsOf(lastAsk.from), {lastAsk})))'
        /\ (StopComes <=>
            (lastAsk.cmd \in {"stop", "halt"} =>
               \A n \in RampNodes :
                 /\ rampsWaiting[n] # << >> => Has(Line(n), lastAsk.cmd)
                 /\ Followed(Line(n), Ordered("target"), Ordered(lastAsk.cmd))))'
    BY StopsAsFollowed, PTL
  <2> QED
    BY <1>3, <1>7, <1>8, <1>9, <2>1
<1> QED
  BY <1>4, <1>5, <1>10 DEF StopInv

\* The line after a ramp has been asked for: its target, and perhaps its only step.
LEMMA AskedLine ==
  ASSUME RampTypeOK, NEW m \in RampNodes, NEW s \in Speed, AskRamp(m, s), NEW n \in RampNodes
  PROVE  \/ /\ bus' = Append(bus, OrderOf("target", s, m))
            /\ Line(n)' = Append(Line(n), OrderOf("target", s, m))
         \/ /\ bus' = Append(Append(bus, OrderOf("target", s, m)), OrderOf("speed", s, m))
            /\ Line(n)' = Append(Append(Line(n), OrderOf("target", s, m)), OrderOf("speed", s, m))
<1> DEFINE t == OrderOf("target", s, m)
           o == OrderOf("speed", s, m)
<1>1. t \in Order /\ o \in Order /\ bus \in Seq(Order) /\ told[n] \in Seq(Order)
  BY OrderTypes DEF RampTypeOK
<1>2. told' = told /\ (bus' = Append(bus, t) \/ bus' = bus \o <<t, o>>)
  BY DEF AskRamp
<1> HIDE DEF t, o
<1>3. bus \o <<t, o>> = Append(Append(bus, t), o)
  BY <1>1
<1>4. /\ told[n] \o Append(bus, t) = Append(told[n] \o bus, t)
      /\ told[n] \o Append(Append(bus, t), o) = Append(Append(told[n] \o bus, t), o)
  <2>1. ASSUME NEW p \in Seq(Order), NEW q \in Seq(Order), NEW r \in Order
        PROVE  p \o Append(q, r) = Append(p \o q, r)
    OBVIOUS
  <2>2. Append(bus, t) \in Seq(Order)
    BY <1>1
  <2>3. told[n] \o Append(bus, t) = Append(told[n] \o bus, t)
    BY <1>1, <2>1, Zenon
  <2>4. told[n] \o Append(Append(bus, t), o) = Append(told[n] \o Append(bus, t), o)
    BY <1>1, <2>1, <2>2, Zenon
  <2> QED
    BY <2>3, <2>4
<1> QED
  BY <1>2, <1>3, <1>4 DEF Line, t, o

LEMMA StopInvStep ==
  ASSUME StopInv, [RampNext]_rampVars
  PROVE  StopInv'
<1>0. RampTypeOK'
  BY RampTypeStep DEF StopInv
<1>1. CASE Report
  <2>1. \A n \in RampNodes : Line(n)' = Line(n)
    BY <1>1, LineStays DEF StopInv
  <2>2. UNCHANGED <<engine, rampsWaiting, lastAsk>>
    BY <1>1 DEF Report
  <2> QED
    BY <1>0, <2>1, <2>2 DEF StopInv, NotRepeated, StopComes, StopperIsEmpty, NoStepBehindOwnStop
<1>2. ASSUME NEW m \in RampNodes, NEW s \in Speed, AskRamp(m, s)
      PROVE  StopInv'
  <2>1. lastAsk'.cmd = "target"
    BY <1>2 DEF AskRamp, Asking, OrderOf
  <2>2. \A n \in RampNodes : Has(Line(n)', "target")
    <3> SUFFICES ASSUME NEW n \in RampNodes PROVE Has(Line(n)', "target")
      OBVIOUS
    <3>1. /\ Line(n) \in Seq(Order) /\ OrderOf("target", s, m) \in Order /\ OrderOf("speed", s, m) \in Order
          /\ OrderOf("target", s, m).cmd = "target"
      BY LineType, OrderTypes DEF StopInv, OrderOf
    <3>2. Has(Append(Line(n), OrderOf("target", s, m)), "target")
      BY <3>1, HasGrows
    <3>3. Append(Line(n), OrderOf("target", s, m)) \in Seq(Order)
      BY <3>1
    <3>4. Has(Append(Append(Line(n), OrderOf("target", s, m)), OrderOf("speed", s, m)), "target")
      BY <3>1, <3>2, <3>3, HasGrows
    <3> QED
      BY <1>2, <3>2, <3>4, AskedLine DEF StopInv
  <2> QED
    BY <1>0, <2>1, <2>2 DEF StopInv, NotRepeated, StopComes, StopperIsEmpty, NoStepBehindOwnStop
<1>3. ASSUME NEW m \in RampNodes, NEW s \in Speed, NEW cmd,
             cmd = "speed" \/ (s = 0 /\ cmd \in {"stop", "halt"} \cup Direction),
             AskPlain(m, cmd, s) \/ (cmd = "stop" /\ AskStop(m)), cmd = "stop" => AskStop(m)
      PROVE  StopInv'
  <2>1. OrderOf(cmd, s, m) \in Order /\ OrderOf(cmd, s, m).cmd = cmd /\ OrderOf(cmd, s, m).from = m
    BY <1>3, OrderTypes DEF OrderOf
  <2>2. /\ bus' = Append(bus, OrderOf(cmd, s, m)) /\ UNCHANGED <<engine, told>>
        /\ lastAsk' = OrderOf(cmd, s, m)
        /\ \A n \in RampNodes : rampsWaiting'[n] # << >> => rampsWaiting[n] # << >>
        /\ cmd = "stop" => rampsWaiting'[m] = << >>
    BY <1>3 DEF AskPlain, AskStop, Asking, StopInv, RampTypeOK
  <2> QED
    BY <1>0, <2>1, <2>2, StopInvGrows
<1>4. ASSUME NEW m \in RampNodes, SendStep(m)
      PROVE  StopInv'
  <2>1. Head(rampsWaiting[m]) \in Speed /\ rampsWaiting[m] # << >>
    BY <1>4 DEF SendStep, StopInv, RampTypeOK
  <2> DEFINE o == OrderOf("speed", Head(rampsWaiting[m]), m)
  <2>2. o \in Order /\ o.cmd = "speed" /\ o.from = m
    BY <2>1, OrderTypes DEF OrderOf
  <2>3. /\ bus' = Append(bus, o) /\ UNCHANGED <<engine, told, lastAsk>>
        /\ \A n \in RampNodes : rampsWaiting'[n] # << >> => rampsWaiting[n] # << >>
    BY <1>4, <2>1 DEF SendStep, StopInv, RampTypeOK
  <2> QED
    BY <1>0, <2>1, <2>2, <2>3, StopInvGrows
<1>5. ASSUME NEW m \in RampNodes, UpdateEngine(m)
      PROVE  StopInv'
  BY <1>0, <1>5, StopInvUpdate
<1>6. CASE UNCHANGED rampVars
  BY <1>6 DEF rampVars, StopInv, RampTypeOK, NotRepeated, StopComes, StopperIsEmpty,
              NoStepBehindOwnStop, Line
<1>7. \A n \in RampNodes, kind \in {"halt"} \cup Direction : kind # "stop" /\ 0 \in Speed
  BY RampFacts DEF Direction
<1> QED
  BY <1>1, <1>2, <1>3, <1>4, <1>5, <1>6, <1>7 DEF RampNext

LEMMA StopInvInit == RampInit => StopInv
<1> SUFFICES ASSUME RampInit PROVE StopInv
  OBVIOUS
<1>1. RampTypeOK
  BY RampTypeInit
<1>2. \A n \in RampNodes : Line(n) = << >> /\ rampsWaiting[n] = << >>
  BY DEF RampInit, Line
<1>3. lastAsk.from \in RampNodes
  BY <1>1, OrderTypes DEF RampTypeOK
<1> QED
  BY <1>1, <1>2, <1>3 DEF StopInv, NotRepeated, StopComes, StopperIsEmpty, NoStepBehindOwnStop

LEMMA StopInvHolds == RampSpec => []StopInv
BY StopInvInit, StopInvStep, PTL DEF RampSpec

LEMMA StopInvMeans == StopInv => NothingLeftAfterStop /\ NoStepBehindOwnStop
BY DEF StopInv, StopComes, NothingLeftAfterStop, OnTheWay, Has

\* Whenever ramps are asked for and however they cross: a stop or a halt that has come
\* back to every node leaves no step waiting, and the node that asked for a stop has put
\* no step behind it (cancel_ramps, _cancel_delayed_requests_on_enqueue).
THEOREM StopsEndRamps == RampSpec => [](NothingLeftAfterStop /\ NoStepBehindOwnStop)
BY StopInvHolds, StopInvMeans, PTL

-----------------------------------------------------------------------------
(* What an order makes of an engine's state                                 *)

LEMMA SameEngine ==
  ASSUME NEW d \in EngineStates, NEW e \in EngineStates, d.speed = e.speed, d.target = e.target,
         d.ramping = e.ramping, d.direction = e.direction, d.last = e.last
  PROVE  d = e
BY DEF EngineStates

LEMMA CancelDoes ==
  ASSUME NEW e \in EngineStates
  PROVE  /\ RampsCancelled(e) \in EngineStates
         /\ RampsCancelled(e).speed = e.speed /\ RampsCancelled(e).target = e.speed
         /\ RampsCancelled(e).ramping = FALSE
         /\ RampsCancelled(e).direction = e.direction /\ RampsCancelled(e).last = e.last
<1>1. e.speed \in Speed
  BY DEF EngineStates
<1> QED
  BY <1>1, HelpersKeepTypes DEF RampsCancelled, NewTarget, EngineStates

LEMMA SpeedSetDoes ==
  ASSUME NEW e \in EngineStates, NEW s \in Speed
  PROVE  /\ SpeedSet(e, s) \in EngineStates
         /\ SpeedSet(e, s).speed = s
         /\ SpeedSet(e, s).target = IF e.ramping THEN e.target ELSE s
         /\ SpeedSet(e, s).ramping <=> e.ramping /\ s # e.target
         /\ SpeedSet(e, s).direction = e.direction /\ SpeedSet(e, s).last = e.last
<1> DEFINE u == [e EXCEPT !.speed = s]
<1>1. /\ u \in EngineStates /\ u.speed = s /\ u.target = e.target /\ u.ramping = e.ramping
      /\ u.direction = e.direction /\ u.last = e.last
  BY DEF EngineStates
<1>2. e.ramping \in BOOLEAN
  BY DEF EngineStates
<1> HIDE DEF u
<1>3. SpeedSet(e, s) = TargetFollows(u)
  BY DEF SpeedSet, u
<1>4. SpeedSet(e, s) \in EngineStates
  BY HelpersKeepTypes
<1>5. CASE ~u.ramping
  <2>1. TargetFollows(u) = [u EXCEPT !.target = s]
    BY <1>1, <1>5 DEF TargetFollows
  <2> QED
    BY <1>1, <1>2, <1>3, <1>4, <1>5, <2>1 DEF EngineStates
<1>6. CASE u.ramping /\ u.speed = u.target
  <2>1. TargetFollows(u) = [u EXCEPT !.ramping = FALSE]
    BY <1>6 DEF TargetFollows
  <2> QED
    BY <1>1, <1>2, <1>3, <1>4, <1>6, <2>1 DEF EngineStates
<1>7. CASE u.ramping /\ u.speed # u.target
  <2>1. TargetFollows(u) = u
    BY <1>7 DEF TargetFollows
  <2> QED
    BY <1>1, <1>2, <1>3, <1>4, <1>7, <2>1
<1> QED
  BY <1>5, <1>6, <1>7

LEMMA UpdatedDoes ==
  ASSUME NEW e \in EngineStates, NEW c \in Order
  PROVE  /\ Updated(e, c) \in EngineStates
         /\ c.cmd \in {"stop", "halt"} =>
              /\ Updated(e, c).speed = 0 /\ Updated(e, c).target = 0 /\ ~Updated(e, c).ramping
              /\ Updated(e, c).direction = e.direction
         /\ c.cmd = "speed" =>
              /\ Updated(e, c).speed = c.speed /\ Updated(e, c).direction = e.direction
              /\ Updated(e, c).target = IF e.ramping THEN e.target ELSE c.speed
              /\ Updated(e, c).ramping <=> e.ramping /\ c.speed # e.target
         /\ c.cmd = "target" =>
              /\ Updated(e, c).speed = e.speed /\ Updated(e, c).direction = e.direction
              /\ Updated(e, c).target = c.speed /\ (Updated(e, c).ramping <=> c.speed # e.speed)
         /\ c.cmd \in Direction /\ c.cmd = e.direction => Updated(e, c) = e
         /\ c.cmd \in Direction /\ c.cmd # e.direction =>
              /\ Updated(e, c).speed = 0 /\ Updated(e, c).target = 0 /\ ~Updated(e, c).ramping
              /\ Updated(e, c).direction = c.cmd
<1> DEFINE r == RampsCancelled(e)
<1>1. c.speed \in Speed /\ 0 \in Speed /\ e.speed \in Speed
      /\ c.cmd \in {"speed", "target", "stop", "halt"} \cup Direction
  BY OrderTypes, RampFacts DEF EngineStates
<1>2. Updated(e, c) \in EngineStates
  BY UpdatedType
<1>3. /\ r \in EngineStates /\ r.speed = e.speed /\ r.target = e.speed /\ ~r.ramping
      /\ r.direction = e.direction
  BY CancelDoes
<1> HIDE DEF r
<1>4. CASE c.cmd = "halt"
  <2>1. Updated(e, c) = [e EXCEPT !.speed = 0, !.target = 0, !.ramping = FALSE]
    BY <1>4 DEF Updated, Direction
  <2> QED
    BY <1>2, <1>4, <2>1 DEF EngineStates, Direction
<1>5. CASE c.cmd = "stop"
  <2>1. Updated(e, c) = SpeedSet(r, 0)
    BY <1>5 DEF Updated, Cancels, Direction, r
  <2>2. /\ SpeedSet(r, 0).speed = 0 /\ ~SpeedSet(r, 0).ramping
        /\ SpeedSet(r, 0).target = 0 /\ SpeedSet(r, 0).direction = r.direction
    <3>1. 0 \in Speed /\ r \in EngineStates /\ ~r.ramping
      BY <1>1, <1>3
    <3> QED
      BY ONLY <3>1, SpeedSetDoes
  <2>3. c.cmd \notin {"speed", "target", "halt"} \cup Direction
    BY <1>5 DEF Direction
  <2> QED
    BY ONLY <1>2, <1>3, <1>5, <2>1, <2>2, <2>3
<1>6. CASE c.cmd = "speed"
  <2>1. Updated(e, c) = SpeedSet(e, c.speed)
    BY <1>6 DEF Updated, Cancels, Direction
  <2> QED
    BY <1>1, <1>2, <1>6, <2>1, SpeedSetDoes DEF Direction
<1>7. CASE c.cmd = "target"
  <2>1. Updated(e, c) = NewTarget(IF e.ramping THEN r ELSE e, c.speed)
    BY <1>7 DEF Updated, Cancels, Direction, r
  <2>2. PICK d \in {r, e} : Updated(e, c) = NewTarget(d, c.speed)
    BY <2>1
  <2>3. d \in EngineStates /\ d.speed = e.speed /\ d.direction = e.direction
    BY <1>3, <2>2
  <2>4. /\ NewTarget(d, c.speed).speed = d.speed /\ NewTarget(d, c.speed).direction = d.direction
        /\ NewTarget(d, c.speed).target = c.speed
        /\ NewTarget(d, c.speed).ramping = (c.speed # d.speed)
    BY <1>1, <2>3 DEF NewTarget, EngineStates
  <2> QED
    BY <1>2, <1>7, <2>2, <2>3, <2>4 DEF Direction
<1>8. CASE c.cmd \in Direction /\ c.cmd = e.direction
  <2>1. Updated(e, c) = e
    BY <1>8 DEF Updated, Cancels, Direction
  <2> QED
    BY <1>2, <1>8, <2>1 DEF Direction
<1>9. CASE c.cmd \in Direction /\ c.cmd # e.direction
  <2> DEFINE f == [r EXCEPT !.direction = c.cmd]
  <2>1. f \in EngineStates /\ ~f.ramping /\ f.direction = c.cmd
    BY <1>3, <1>9 DEF EngineStates
  <2> HIDE DEF f
  <2>2. Updated(e, c) = SpeedSet(f, 0)
    BY <1>9 DEF Updated, Cancels, Direction, r, f
  <2>3. /\ Updated(e, c).speed = 0 /\ Updated(e, c).target = 0 /\ ~Updated(e, c).ramping
        /\ Updated(e, c).direction = c.cmd
    <3>1. 0 \in Speed /\ f \in EngineStates /\ ~f.ramping
      BY <1>1, <2>1
    <3>2. /\ SpeedSet(f, 0).speed = 0 /\ ~SpeedSet(f, 0).ramping
          /\ SpeedSet(f, 0).target = 0 /\ SpeedSet(f, 0).direction = f.direction
      BY ONLY <3>1, SpeedSetDoes
    <3> QED
      BY <2>1, <2>2, <3>2
  <2>4. c.cmd \notin {"speed", "target", "stop", "halt"}
    BY <1>9 DEF Direction
  <2> QED
    BY <1>2, <1>9, <2>3, <2>4
<1> QED
  BY <1>1, <1>4, <1>5, <1>6, <1>7, <1>8, <1>9


LEMMA AfterDoes ==
  ASSUME NEW e \in EngineStates, NEW c \in Order
  PROVE  /\ After(e, c) \in EngineStates
         /\ Repeated(e, c) => After(e, c) = e
         /\ ~Repeated(e, c) =>
              /\ After(e, c).speed = Updated(e, c).speed
              /\ After(e, c).target = Updated(e, c).target
              /\ After(e, c).ramping = Updated(e, c).ramping
              /\ After(e, c).direction = Updated(e, c).direction
              /\ After(e, c).last = <<c.cmd, c.speed>>
<1>1. After(e, c) \in EngineStates /\ Updated(e, c) \in EngineStates
  BY UpdatedType
<1> QED
  BY <1>1 DEF After, EngineStates

LEMMA AfterShown ==
  ASSUME NEW v \in Shown, NEW c \in Order
  PROVE  After(v, c) \in Shown
<1> DEFINE w == After(v, c)
           u == Updated(v, c)
<1>1. v \in EngineStates /\ (v.ramping <=> v.target # v.speed)
  BY DEF Shown
<1>2. w \in EngineStates /\ (Repeated(v, c) => w = v)
      /\ (~Repeated(v, c) => w.speed = u.speed /\ w.target = u.target /\ w.ramping = u.ramping
                             /\ w.direction = u.direction /\ w.last = <<c.cmd, c.speed>>)
  BY <1>1, AfterDoes
<1>3. c.cmd \in {"speed", "target", "stop", "halt"} \cup Direction /\ c.speed \in Speed
  BY OrderTypes
<1>4. u \in EngineStates
  BY <1>1, UpdatedType
<1> HIDE DEF w
<1>5. ASSUME ~Repeated(v, c)
      PROVE  (w.ramping <=> w.target # w.speed) /\ Marked(w)
  <2>1. w.last[1] = c.cmd /\ w.last[2] = c.speed
    BY <1>2, <1>5
  <2>2. CASE c.cmd \in {"stop", "halt"}
    <3>1. u.speed = 0 /\ u.target = 0 /\ ~u.ramping
      BY <1>1, <2>2, UpdatedDoes
    <3> QED
      BY <1>2, <1>5, <2>1, <2>2, <3>1 DEF Marked, Direction
  <2>3. CASE c.cmd = "speed"
    <3>1. /\ u.speed = c.speed /\ u.target = IF v.ramping THEN v.target ELSE c.speed
          /\ u.ramping <=> v.ramping /\ c.speed # v.target
      BY <1>1, <2>3, UpdatedDoes
    <3> QED
      BY <1>1, <1>2, <1>5, <2>1, <2>3, <3>1 DEF Marked, Direction
  <2>4. CASE c.cmd = "target"
    <3>1. u.target = c.speed /\ u.speed = v.speed /\ (u.ramping <=> c.speed # v.speed)
      BY <1>1, <2>4, UpdatedDoes
    <3> QED
      BY <1>1, <1>2, <1>5, <2>1, <2>4, <3>1 DEF Marked, Direction
  <2>5. CASE c.cmd \in Direction /\ c.cmd = v.direction
    <3>1. u = v
      BY <1>1, <2>5, UpdatedDoes
    <3> QED
      BY <1>1, <1>2, <1>5, <2>1, <2>5, <3>1 DEF Marked, Direction
  <2>6. CASE c.cmd \in Direction /\ c.cmd # v.direction
    <3>1. u.speed = 0 /\ u.target = 0 /\ ~u.ramping /\ u.direction = c.cmd
      BY <1>1, <2>6, UpdatedDoes
    <3> QED
      BY <1>1, <1>2, <1>5, <2>1, <2>6, <3>1 DEF Marked, Direction
  <2> QED
    BY <1>3, <2>2, <2>3, <2>4, <2>5, <2>6
<1>6. Repeated(v, c) => w \in Shown
  BY <1>2
<1>7. ~Repeated(v, c) => w \in Shown
  BY <1>2, <1>5 DEF Shown
<1> QED
  BY <1>6, <1>7 DEF w

\* A node whose ramp was cancelled is behind only by that: the next order keeps it so.
LEMMA AfterCancelled ==
  ASSUME NEW v \in Shown, NEW c \in Order
  PROVE  After(RampsCancelled(v), c) \in {After(v, c), RampsCancelled(After(v, c))}
<1> DEFINE e == RampsCancelled(v)
           x == After(e, c)
           y == After(v, c)
           z == RampsCancelled(y)
<1>1. v \in EngineStates /\ (v.ramping <=> v.target # v.speed)
  BY DEF Shown
<1>2. e \in EngineStates /\ e.speed = v.speed /\ e.target = v.speed /\ e.ramping = FALSE
      /\ e.direction = v.direction /\ e.last = v.last
  BY <1>1, CancelDoes
<1>3. c.cmd \in {"speed", "target", "stop", "halt"} \cup Direction /\ c.speed \in Speed
  BY OrderTypes
<1>4. /\ y \in EngineStates /\ (Repeated(v, c) => y = v)
      /\ (~Repeated(v, c) => y.speed = Updated(v, c).speed /\ y.target = Updated(v, c).target
                             /\ y.ramping = Updated(v, c).ramping
                             /\ y.direction = Updated(v, c).direction /\ y.last = <<c.cmd, c.speed>>)
  BY <1>1, AfterDoes
<1>a. e \in EngineStates
  BY <1>2
<1> HIDE DEF e
<1>5. /\ x \in EngineStates /\ (Repeated(e, c) => x = e)
      /\ (~Repeated(e, c) => x.speed = Updated(e, c).speed /\ x.target = Updated(e, c).target
                             /\ x.ramping = Updated(e, c).ramping
                             /\ x.direction = Updated(e, c).direction /\ x.last = <<c.cmd, c.speed>>)
  BY <1>a, AfterDoes
<1>6. Repeated(v, c) <=> Repeated(e, c)
  BY <1>2 DEF Repeated
<1>7. z \in EngineStates /\ z.speed = y.speed /\ z.target = y.speed /\ z.ramping = FALSE
      /\ z.direction = y.direction /\ z.last = y.last
  BY <1>4, CancelDoes
<1>8. CASE Repeated(v, c)
  BY <1>4, <1>5, <1>6, <1>8 DEF e
<1>9. CASE ~Repeated(v, c)
  <2> DEFINE u == Updated(v, c)
             t == Updated(e, c)
  <2>0. u.ramping \in BOOLEAN /\ t.ramping \in BOOLEAN
    BY <1>1, <1>2, UpdatedType DEF EngineStates
  <2>1. /\ y.speed = u.speed /\ y.target = u.target /\ y.ramping = u.ramping
        /\ y.direction = u.direction
        /\ x.speed = t.speed /\ x.target = t.target /\ x.ramping = t.ramping
        /\ x.direction = t.direction /\ x.last = y.last
    BY <1>4, <1>5, <1>6, <1>9
  <2> HIDE DEF x, y, z
  <2>2. CASE c.cmd \in {"stop", "halt"}
    <3>1. u.speed = 0 /\ u.target = 0 /\ ~u.ramping /\ u.direction = v.direction
      BY <1>1, <2>2, UpdatedDoes
    <3>2. t.speed = 0 /\ t.target = 0 /\ ~t.ramping /\ t.direction = e.direction
      BY <1>a, <2>2, UpdatedDoes
    <3>3. x = y
      BY <1>2, <1>4, <1>5, <2>0, <2>1, <3>1, <3>2, SameEngine
    <3> QED
      BY <3>3 DEF x, y, z, e
  <2>3. CASE c.cmd = "speed"
    <3>1. u.speed = c.speed /\ u.direction = v.direction
      BY <1>1, <2>3, UpdatedDoes
    <3>2. t.speed = c.speed /\ t.target = c.speed /\ ~t.ramping /\ t.direction = e.direction
      BY <1>2, <2>3, UpdatedDoes
    <3>4. x.speed = z.speed /\ x.target = z.target
      BY <1>2, <1>7, <2>1, <3>1, <3>2
    <3>5. x.ramping = z.ramping
      BY <1>2, <1>7, <2>0, <2>1, <3>1, <3>2
    <3>6. x.direction = z.direction /\ x.last = z.last
      BY <1>2, <1>7, <2>1, <3>1, <3>2
    <3>7. x \in EngineStates /\ z \in EngineStates
      BY <1>5, <1>7
    <3>3. x = z
      BY <3>4, <3>5, <3>6, <3>7, SameEngine
    <3> QED
      BY <3>3 DEF x, y, z, e
  <2>4. CASE c.cmd = "target"
    <3>1. u.speed = v.speed /\ u.target = c.speed /\ u.direction = v.direction
          /\ (u.ramping <=> c.speed # v.speed)
      BY <1>1, <2>4, UpdatedDoes
    <3>2. t.speed = e.speed /\ t.target = c.speed /\ t.direction = e.direction
          /\ (t.ramping <=> c.speed # e.speed)
      BY <1>2, <2>4, UpdatedDoes
    <3>3. x = y
      BY <1>2, <1>4, <1>5, <2>0, <2>1, <3>1, <3>2, SameEngine
    <3> QED
      BY <3>3 DEF x, y, z, e
  <2>5. CASE c.cmd \in Direction /\ c.cmd = v.direction
    <3>1. u = v
      BY <1>1, <2>5, UpdatedDoes
    <3>2. t = e
      BY <1>2, <2>5, UpdatedDoes
    <3>4. x.speed = z.speed /\ x.target = z.target
      BY <1>2, <1>7, <2>1, <3>1, <3>2
    <3>5. x.ramping = z.ramping
      BY <1>2, <1>7, <2>0, <2>1, <3>1, <3>2
    <3>6. x.direction = z.direction /\ x.last = z.last
      BY <1>2, <1>7, <2>1, <3>1, <3>2
    <3>7. x \in EngineStates /\ z \in EngineStates
      BY <1>5, <1>7
    <3>3. x = z
      BY <3>4, <3>5, <3>6, <3>7, SameEngine
    <3> QED
      BY <3>3 DEF x, y, z, e
  <2>6. CASE c.cmd \in Direction /\ c.cmd # v.direction
    <3>1. u.speed = 0 /\ u.target = 0 /\ ~u.ramping /\ u.direction = c.cmd
      BY <1>1, <2>6, UpdatedDoes
    <3>2. t.speed = 0 /\ t.target = 0 /\ ~t.ramping /\ t.direction = c.cmd
      BY <1>2, <2>6, UpdatedDoes
    <3>3. x = y
      BY <1>2, <1>4, <1>5, <2>0, <2>1, <3>1, <3>2, SameEngine
    <3> QED
      BY <3>3 DEF x, y, z, e
  <2> QED
    BY <1>3, <2>2, <2>3, <2>4, <2>5, <2>6
<1> QED
  BY <1>8, <1>9 DEF e

LEMMA CancelledTwice ==
  ASSUME NEW v \in EngineStates
  PROVE  /\ RampsCancelled(RampsCancelled(v)) = RampsCancelled(v)
         /\ v \in Shown /\ ~v.ramping => RampsCancelled(v) = v
<1>1. RampsCancelled(v) \in EngineStates
  BY CancelDoes
<1>2. /\ RampsCancelled(v).speed = v.speed /\ RampsCancelled(v).target = v.speed
      /\ RampsCancelled(v).ramping = FALSE
      /\ RampsCancelled(v).direction = v.direction /\ RampsCancelled(v).last = v.last
  BY CancelDoes
<1> DEFINE w == RampsCancelled(v)
<1> HIDE DEF w
<1>3. w \in EngineStates /\ w.speed = v.speed /\ w.target = v.speed /\ w.ramping = FALSE
      /\ w.direction = v.direction /\ w.last = v.last
  BY <1>1, <1>2 DEF w
<1>4. RampsCancelled(w) \in EngineStates
      /\ RampsCancelled(w).speed = w.speed /\ RampsCancelled(w).target = w.speed
      /\ RampsCancelled(w).ramping = FALSE
      /\ RampsCancelled(w).direction = w.direction /\ RampsCancelled(w).last = w.last
  BY <1>3, CancelDoes
<1>5. RampsCancelled(w) = w
  BY <1>3, <1>4, SameEngine
<1>6. ASSUME v \in Shown, ~v.ramping PROVE w = v
  <2>1. v.target = v.speed /\ v.ramping = FALSE
    BY <1>6 DEF Shown, EngineStates
  <2> QED
    BY <1>3, <2>1, SameEngine
<1> QED
  BY <1>5, <1>6 DEF w


-----------------------------------------------------------------------------
(* The story of the engine: every order that was ever put on the line and   *)
(* what the engine shows after each of them                                 *)

Story(c, V) ==
  /\ c \in Seq(Order)
  /\ V \in [0 .. Len(c) -> Shown]
  /\ \A i \in 1 .. Len(c) : V[i] = After(V[i - 1], c[i])

\* A node that has applied the first k orders and has q still to apply shows e: what the
\* story says, but that it may have cancelled its ramp itself.
Behind(q, e, k, c, V) ==
  /\ k \in 0 .. Len(c)
  /\ Len(q) = Len(c) - k
  /\ \A j \in 1 .. Len(q) : q[j] = c[k + j]
  /\ e \in {V[k], RampsCancelled(V[k])}

Continued(c, V, o) == [i \in 0 .. Len(c) + 1 |-> IF i \in 0 .. Len(c) THEN V[i] ELSE After(V[Len(c)], o)]

LEMMA StoryGrows ==
  ASSUME NEW c, NEW V, Story(c, V), NEW o \in Order
  PROVE  /\ Story(Append(c, o), Continued(c, V, o))
         /\ \A i \in 0 .. Len(c) : Continued(c, V, o)[i] = V[i]
         /\ Continued(c, V, o)[Len(c) + 1] = After(V[Len(c)], o)
         /\ Len(Append(c, o)) = Len(c) + 1 /\ Append(c, o)[Len(c) + 1] = o
         /\ \A i \in 1 .. Len(c) : Append(c, o)[i] = c[i]
<1> DEFINE c2 == Append(c, o)
           V2 == Continued(c, V, o)
           N == Len(c)
<1>1. c \in Seq(Order) /\ N \in Nat /\ V \in [0 .. N -> Shown]
      /\ \A i \in 1 .. N : V[i] = After(V[i - 1], c[i])
  BY DEF Story
<1>2. c2 \in Seq(Order) /\ Len(c2) = N + 1 /\ c2[N + 1] = o /\ \A i \in 1 .. N : c2[i] = c[i]
  BY <1>1
<1>3. After(V[N], o) \in Shown
  <2>1. V[N] \in Shown
    BY <1>1
  <2> QED
    BY <2>1, AfterShown
<1> HIDE DEF c2, N
<1>4. V2 = [i \in 0 .. N + 1 |-> IF i \in 0 .. N THEN V[i] ELSE After(V[N], o)]
  BY DEF Continued, N
<1> HIDE DEF V2
<1>5. (\A i \in 0 .. N : V2[i] = V[i]) /\ V2[N + 1] = After(V[N], o)
  BY <1>1, <1>4
<1>6. V2 \in [0 .. N + 1 -> Shown]
  BY <1>1, <1>3, <1>4
<1>7. \A i \in 1 .. N + 1 : V2[i] = After(V2[i - 1], c2[i])
  <2> SUFFICES ASSUME NEW i \in 1 .. N + 1 PROVE V2[i] = After(V2[i - 1], c2[i])
    OBVIOUS
  <2>1. CASE i \in 1 .. N
    <3>1. i - 1 \in 0 .. N /\ i \in 0 .. N
      BY <1>1, <2>1
    <3>2. V2[i] = V[i] /\ V2[i - 1] = V[i - 1] /\ c2[i] = c[i]
      BY <1>2, <1>5, <2>1, <3>1
    <3> QED
      BY <1>1, <2>1, <3>2
  <2>2. CASE i = N + 1
    <3>1. i - 1 = N /\ N \in 0 .. N
      BY <1>1, <2>2
    <3> QED
      BY <1>2, <1>5, <2>2, <3>1
  <2> QED
    BY <1>1, <2>1, <2>2
<1>8. Story(c2, V2)
  BY <1>2, <1>6, <1>7 DEF Story
<1> QED
  BY <1>2, <1>5, <1>8 DEF c2, V2, N

LEMMA BehindGrows ==
  ASSUME NEW c, NEW V, Story(c, V), NEW o \in Order, NEW q \in Seq(Order), NEW e, NEW k,
         Behind(q, e, k, c, V)
  PROVE  Behind(Append(q, o), e, k, Append(c, o), Continued(c, V, o))
<1>1. /\ \A i \in 0 .. Len(c) : Continued(c, V, o)[i] = V[i]
      /\ Len(Append(c, o)) = Len(c) + 1 /\ Append(c, o)[Len(c) + 1] = o
      /\ \A i \in 1 .. Len(c) : Append(c, o)[i] = c[i]
  BY StoryGrows
<1>2. Len(c) \in Nat /\ Len(q) \in Nat /\ k \in 0 .. Len(c) /\ Len(q) = Len(c) - k
      /\ (\A j \in 1 .. Len(q) : q[j] = c[k + j]) /\ e \in {V[k], RampsCancelled(V[k])}
  BY DEF Story, Behind
<1>3. Len(Append(q, o)) = Len(q) + 1 /\ Append(q, o)[Len(q) + 1] = o
      /\ \A j \in 1 .. Len(q) : Append(q, o)[j] = q[j]
  OBVIOUS
<1>4. \A j \in 1 .. Len(q) + 1 : Append(q, o)[j] = Append(c, o)[k + j]
  <2> SUFFICES ASSUME NEW j \in 1 .. Len(q) + 1 PROVE Append(q, o)[j] = Append(c, o)[k + j]
    OBVIOUS
  <2>1. CASE j \in 1 .. Len(q)
    <3>1. k + j \in 1 .. Len(c)
      BY <1>2, <2>1
    <3> QED
      BY <1>1, <1>2, <1>3, <2>1, <3>1
  <2>2. CASE j = Len(q) + 1
    <3>1. k + j = Len(c) + 1
      BY <1>2, <2>2
    <3> QED
      BY <1>1, <1>3, <2>2, <3>1
  <2>3. j \in 1 .. Len(q) \/ j = Len(q) + 1
    BY <1>2
  <2> QED
    BY <2>1, <2>2, <2>3
<1>5. Continued(c, V, o)[k] = V[k]
  BY <1>1, <1>2
<1>6. k \in 0 .. Len(c) + 1 /\ Len(q) + 1 = Len(c) + 1 - k
  BY <1>2
<1> DEFINE q2 == Append(q, o)
           c2 == Append(c, o)
           V2 == Continued(c, V, o)
<1>7. /\ k \in 0 .. Len(c2) /\ Len(q2) = Len(c2) - k
      /\ \A j \in 1 .. Len(q2) : q2[j] = c2[k + j]
      /\ e \in {V2[k], RampsCancelled(V2[k])}
  BY <1>1, <1>2, <1>3, <1>4, <1>5, <1>6
<1> HIDE DEF q2, c2, V2
<1>8. Behind(q2, e, k, c2, V2)
  BY <1>7 DEF Behind
<1> QED
  BY <1>8 DEF q2, c2, V2

\* The next order takes a node one on in the story.
LEMMA BehindMoves ==
  ASSUME NEW c, NEW V, Story(c, V), NEW q \in Seq(Order), q # << >>, NEW e, NEW k,
         Behind(q, e, k, c, V)
  PROVE  /\ Behind(Tail(q), After(e, Head(q)), k + 1, c, V)
         /\ k + 1 \in 1 .. Len(c) /\ Head(q) = c[k + 1] /\ e \in EngineStates
<1>1. Len(c) \in Nat /\ Len(q) \in Nat /\ k \in 0 .. Len(c) /\ Len(q) = Len(c) - k
      /\ (\A j \in 1 .. Len(q) : q[j] = c[k + j]) /\ e \in {V[k], RampsCancelled(V[k])}
      /\ (\A i \in 1 .. Len(c) : V[i] = After(V[i - 1], c[i]))
      /\ V \in [0 .. Len(c) -> Shown] /\ c \in Seq(Order)
  BY DEF Story, Behind
<1>2. /\ Len(q) >= 1 /\ Head(q) = q[1] /\ Len(Tail(q)) = Len(q) - 1
      /\ \A j \in 1 .. Len(q) - 1 : Tail(q)[j] = q[j + 1]
  OBVIOUS
<1>3. k + 1 \in 1 .. Len(c) /\ Head(q) = c[k + 1]
  BY <1>1, <1>2
<1>4. V[k] \in Shown /\ c[k + 1] \in Order /\ V[k + 1] = After(V[k], c[k + 1])
  <2>1. V[k + 1] = After(V[k + 1 - 1], c[k + 1])
    BY <1>1, <1>3
  <2>2. k + 1 - 1 = k
    BY <1>1
  <2>3. V[k] \in Shown /\ c[k + 1] \in Order
    BY <1>1, <1>3
  <2> QED
    BY <2>1, <2>2, <2>3
<1>5. After(e, Head(q)) \in {V[k + 1], RampsCancelled(V[k + 1])}
  <2>1. After(RampsCancelled(V[k]), c[k + 1]) \in {V[k + 1], RampsCancelled(V[k + 1])}
    BY <1>4, AfterCancelled
  <2> QED
    BY <1>1, <1>3, <1>4, <2>1
<1>6. e \in EngineStates
  BY <1>1, <1>4, CancelDoes DEF Shown
<1>7. \A j \in 1 .. Len(Tail(q)) : Tail(q)[j] = c[k + 1 + j]
  <2> SUFFICES ASSUME NEW j \in 1 .. Len(q) - 1 PROVE Tail(q)[j] = c[k + 1 + j]
    BY <1>2
  <2>1. j + 1 \in 1 .. Len(q) /\ Tail(q)[j] = q[j + 1]
    BY <1>1, <1>2
  <2>2. q[j + 1] = c[k + (j + 1)]
    BY <1>1, <2>1
  <2>3. k + (j + 1) = k + 1 + j
    BY <1>1
  <2> QED
    BY <2>1, <2>2, <2>3
<1>8. k + 1 \in 0 .. Len(c) /\ Len(Tail(q)) = Len(c) - (k + 1)
  BY <1>1, <1>2, <1>3
<1> QED
  BY <1>3, <1>5, <1>6, <1>7, <1>8 DEF Behind

\* A node that cancels its ramps stays where it is in the story.
LEMMA BehindCancels ==
  ASSUME NEW c, NEW V, Story(c, V), NEW q, NEW e, NEW k, Behind(q, e, k, c, V)
  PROVE  Behind(q, RampsCancelled(e), k, c, V)
<1>1. k \in 0 .. Len(c) /\ V \in [0 .. Len(c) -> Shown] /\ e \in {V[k], RampsCancelled(V[k])}
  BY DEF Story, Behind
<1>2. V[k] \in EngineStates
  BY <1>1 DEF Shown
<1>3. RampsCancelled(RampsCancelled(V[k])) = RampsCancelled(V[k])
  BY <1>2, CancelledTwice
<1> QED
  BY <1>1, <1>3 DEF Behind


LEMMA RampKept ==
  ASSUME NEW v \in Shown, NEW o \in Order
  PROVE  /\ o.cmd = "target" => After(v, o).target = o.speed
         /\ After(v, o).ramping =>
              /\ o.cmd \in {"speed", "target"} \cup Direction
              /\ o.cmd = "speed" =>
                   v.ramping /\ After(v, o).target = v.target /\ o.speed # After(v, o).target
              /\ o.cmd \in Direction =>
                   v.ramping /\ After(v, o).target = v.target /\ o.cmd = v.direction
<1> DEFINE w == After(v, o)
           u == Updated(v, o)
<1>1. v \in EngineStates /\ (v.ramping <=> v.target # v.speed) /\ Marked(v)
  BY DEF Shown
<1>2. (Repeated(v, o) => w = v)
      /\ (~Repeated(v, o) => w.target = u.target /\ w.ramping = u.ramping)
  BY <1>1, AfterDoes
<1>3. o.cmd \in {"speed", "target", "stop", "halt"} \cup Direction
  BY OrderTypes
<1>4. Repeated(v, o) => v.last[1] = o.cmd /\ v.last[2] = o.speed
  BY DEF Repeated
<1> HIDE DEF w
<1>5. CASE o.cmd \in {"stop", "halt"}
  <2>1. ~u.ramping
    BY <1>1, <1>5, UpdatedDoes
  <2>2. ~w.ramping
    BY <1>1, <1>2, <1>4, <1>5, <2>1 DEF Marked
  <2> QED
    BY <1>5, <2>2 DEF w, Direction
<1>6. CASE o.cmd = "speed"
  <2>1. /\ u.target = IF v.ramping THEN v.target ELSE o.speed
        /\ u.ramping <=> v.ramping /\ o.speed # v.target
    BY <1>1, <1>6, UpdatedDoes
  <2>2. Repeated(v, o) => v.speed = o.speed
    BY <1>1, <1>4, <1>6 DEF Marked
  <2>3. w.ramping => v.ramping /\ w.target = v.target /\ o.speed # w.target
    BY <1>1, <1>2, <2>1, <2>2
  <2> QED
    BY <1>6, <2>3 DEF w, Direction
<1>7. CASE o.cmd = "target"
  <2>1. u.target = o.speed
    BY <1>1, <1>7, UpdatedDoes
  <2>2. Repeated(v, o) => v.target = o.speed
    BY <1>1, <1>4, <1>7 DEF Marked
  <2> QED
    BY <1>2, <1>7, <2>1, <2>2 DEF w, Direction
<1>8. CASE o.cmd \in Direction
  <2>1. Repeated(v, o) => v.direction = o.cmd
    BY <1>1, <1>4, <1>8 DEF Marked
  <2>2. o.cmd # v.direction => ~u.ramping
    BY <1>1, <1>8, UpdatedDoes
  <2>3. o.cmd = v.direction => u = v
    BY <1>1, <1>8, UpdatedDoes
  <2>4. w.ramping => v.ramping /\ w.target = v.target /\ o.cmd = v.direction
    BY <1>2, <2>1, <2>2, <2>3
  <2> QED
    BY <1>8, <2>4 DEF w, Direction
<1> QED
  BY <1>3, <1>5, <1>6, <1>7, <1>8

\* The node whose steps w end the ramp that the story ends with: nothing that it has still to
\* apply takes them away.
Carries(w, e, k, c, V) ==
  /\ w # << >> /\ w[Len(w)] = V[Len(c)].target
  /\ \A i \in k + 1 .. Len(c) :
       /\ c[i].cmd \in {"speed", "target"} \cup Direction
       /\ c[i].cmd \in Direction => c[i].cmd = V[i - 1].direction
       /\ c[i].cmd = "target" => ~e.ramping /\ \A j \in k + 1 .. i - 1 : c[j].cmd = "speed"

LEMMA CarriesGrows ==
  ASSUME NEW c, NEW V, Story(c, V), NEW o \in Order, o.cmd \in {"speed"} \cup Direction,
         NEW w, NEW e, NEW k \in 0 .. Len(c), Carries(w, e, k, c, V),
         After(V[Len(c)], o).ramping, NEW x, x # << >>, x[Len(x)] = w[Len(w)]
  PROVE  Carries(x, e, k, Append(c, o), Continued(c, V, o))
<1> DEFINE N == Len(c)
           c2 == Append(c, o)
           V2 == Continued(c, V, o)
<1>1. N \in Nat /\ V[N] \in Shown
  BY DEF Story
<1>2. /\ \A i \in 0 .. N : V2[i] = V[i]
      /\ V2[N + 1] = After(V[N], o)
      /\ Len(c2) = N + 1 /\ c2[N + 1] = o /\ \A i \in 1 .. N : c2[i] = c[i]
  BY StoryGrows
<1>3. After(V[N], o).target = V[N].target /\ (o.cmd \in Direction => o.cmd = V[N].direction)
  BY <1>1, RampKept
<1>4. /\ w[Len(w)] = V[N].target
      /\ \A i \in k + 1 .. N :
           /\ c[i].cmd \in {"speed", "target"} \cup Direction
           /\ c[i].cmd \in Direction => c[i].cmd = V[i - 1].direction
           /\ c[i].cmd = "target" => ~e.ramping /\ \A j \in k + 1 .. i - 1 : c[j].cmd = "speed"
  BY DEF Carries
<1>5. k \in Nat /\ k <= N
  BY <1>1
<1> HIDE DEF N, c2, V2
<1>6. ASSUME NEW i \in k + 1 .. N + 1
      PROVE  /\ c2[i].cmd \in {"speed", "target"} \cup Direction
             /\ c2[i].cmd \in Direction => c2[i].cmd = V2[i - 1].direction
             /\ c2[i].cmd = "target" => ~e.ramping /\ \A j \in k + 1 .. i - 1 : c2[j].cmd = "speed"
  <2>1. CASE i \in k + 1 .. N
    <3>1. c2[i] = c[i] /\ V2[i - 1] = V[i - 1]
      BY <1>1, <1>2, <1>5, <2>1
    <3>2. \A j \in k + 1 .. i - 1 : c2[j] = c[j]
      BY <1>1, <1>2, <1>5, <2>1
    <3> QED
      BY <1>4, <2>1, <3>1, <3>2
  <2>2. CASE i = N + 1
    <3>1. c2[i] = o /\ V2[i - 1] = V[N]
      BY <1>1, <1>2, <2>2
    <3> QED
      BY <1>3, <3>1 DEF Direction
  <2>3. i \in k + 1 .. N \/ i = N + 1
    BY <1>1, <1>5
  <2> QED
    BY <2>1, <2>2, <2>3
<1>7. x[Len(x)] = V2[Len(c2)].target
  BY <1>2, <1>3, <1>4
<1>8. Carries(x, e, k, c2, V2)
  BY <1>2, <1>6, <1>7 DEF Carries
<1> QED
  BY <1>8 DEF c2, V2

LEMMA CarriesMoves ==
  ASSUME NEW c, NEW V, Story(c, V), NEW q \in Seq(Order), q # << >>, NEW e, NEW k,
         Behind(q, e, k, c, V), NEW w, Carries(w, e, k, c, V)
  PROVE  ~DropsSteps(e, Head(q)) /\ Carries(w, After(e, Head(q)), k + 1, c, V)
<1> DEFINE N == Len(c)
           o == Head(q)
<1>1. k + 1 \in 1 .. N /\ o = c[k + 1] /\ e \in EngineStates /\ o \in Order
  BY BehindMoves
<1>2. N \in Nat /\ k \in 0 .. N /\ V[k] \in Shown /\ e \in {V[k], RampsCancelled(V[k])}
  BY DEF Story, Behind
<1>3. /\ w # << >> /\ w[Len(w)] = V[N].target
      /\ \A i \in k + 1 .. N :
           /\ c[i].cmd \in {"speed", "target"} \cup Direction
           /\ c[i].cmd \in Direction => c[i].cmd = V[i - 1].direction
           /\ c[i].cmd = "target" => ~e.ramping /\ \A j \in k + 1 .. i - 1 : c[j].cmd = "speed"
  BY DEF Carries
<1>4. e.direction = V[k].direction
  BY <1>2, CancelDoes DEF Shown
<1> HIDE DEF o, N
<1>5. k + 1 \in k + 1 .. N /\ k + 1 - 1 = k
  BY <1>1, <1>2
<1>6. /\ o.cmd \in {"speed", "target"} \cup Direction
      /\ o.cmd \in Direction => o.cmd = e.direction
      /\ o.cmd = "target" => ~e.ramping
  <2> DEFINE i == k + 1
  <2>0. i \in k + 1 .. N
    BY <1>5
  <2> HIDE DEF i
  <2>3. c[i].cmd \in {"speed", "target"} \cup Direction
    BY <1>3, <2>0
  <2>4. c[i].cmd \in Direction => c[i].cmd = V[i - 1].direction
    BY <1>3, <2>0
  <2>5. c[i].cmd = "target" => ~e.ramping
    BY <1>3, <2>0
  <2>6. o = c[i]
    BY <1>1 DEF i
  <2>7. i - 1 = k
    BY <1>2 DEF i
  <2>1. o = c[i] /\ V[i - 1] = V[k]
    BY <2>6, <2>7
  <2> QED
    BY <1>4, <2>1, <2>3, <2>4, <2>5
<1>7. ~DropsSteps(e, o)
  BY <1>6 DEF DropsSteps, Cancels, Direction
<1>8. ~e.ramping /\ o.cmd = "speed" => ~After(e, o).ramping
  <2>1. o.cmd = "speed" => (Updated(e, o).ramping <=> e.ramping /\ o.speed # e.target)
    BY <1>1, UpdatedDoes
  <2>2. /\ Repeated(e, o) => After(e, o) = e
        /\ ~Repeated(e, o) => After(e, o).ramping = Updated(e, o).ramping
    BY <1>1, AfterDoes
  <2> QED
    BY <2>1, <2>2
<1>9. ASSUME NEW i \in k + 1 + 1 .. N
      PROVE  /\ c[i].cmd \in {"speed", "target"} \cup Direction
             /\ c[i].cmd \in Direction => c[i].cmd = V[i - 1].direction
             /\ c[i].cmd = "target" => ~After(e, o).ramping
                                       /\ \A j \in k + 1 + 1 .. i - 1 : c[j].cmd = "speed"
  <2>1. i \in k + 1 .. N /\ k + 1 \in k + 1 .. i - 1
        /\ \A j \in k + 1 + 1 .. i - 1 : j \in k + 1 .. i - 1
    BY <1>2
  <2>2. c[i].cmd = "target" => ~e.ramping /\ \A j \in k + 1 .. i - 1 : c[j].cmd = "speed"
    BY <1>3, <2>1
  <2>3. c[i].cmd = "target" => ~After(e, o).ramping
    BY <1>1, <1>8, <2>1, <2>2
  <2> QED
    BY <1>3, <2>1, <2>2, <2>3
<1>10. Carries(w, After(e, o), k + 1, c, V)
  BY <1>3, <1>9 DEF Carries, N
<1> QED
  BY <1>7, <1>10 DEF o


Accounted(c, V, p) ==
  /\ Story(c, V)
  /\ p \in [RampNodes -> Nat]
  /\ \A n \in RampNodes : Behind(Line(n), engine[n], p[n], c, V)

\* A ramp that the story ends with still has its steps at some node.
Carried(c, V, p) ==
  V[Len(c)].ramping =>
    \E n \in RampNodes : Carries(rampsWaiting[n], engine[n], p[n], c, V)

RestInv == RampTypeOK /\ \E c, V, p : Accounted(c, V, p) /\ Carried(c, V, p)

LEMMA RestMeans == RestInv => AgreeAtRest
<1> SUFFICES ASSUME RestInv, AtRest, NEW n \in RampNodes, NEW m \in RampNodes
             PROVE  engine[n] = engine[m] /\ ~engine[n].ramping
                    /\ engine[n].target = engine[n].speed
  BY DEF AgreeAtRest
<1>1. PICK c, V, p : Accounted(c, V, p) /\ Carried(c, V, p)
  BY DEF RestInv
<1>2. \A a \in RampNodes : rampsWaiting[a] = << >> /\ Len(Line(a)) = 0
  BY DEF AtRest, Line
<1>3. ~V[Len(c)].ramping
  BY <1>1, <1>2 DEF Carried, Carries
<1>4. Len(c) \in Nat /\ V[Len(c)] \in Shown
  BY <1>1 DEF Accounted, Story
<1>5. RampsCancelled(V[Len(c)]) = V[Len(c)]
  BY <1>3, <1>4, CancelledTwice DEF Shown
<1>6. ASSUME NEW a \in RampNodes PROVE engine[a] = V[Len(c)]
  <2>1. Behind(Line(a), engine[a], p[a], c, V)
    BY <1>1 DEF Accounted
  <2>2. p[a] \in 0 .. Len(c) /\ Len(Line(a)) = Len(c) - p[a]
        /\ engine[a] \in {V[p[a]], RampsCancelled(V[p[a]])}
    BY <2>1 DEF Behind
  <2>3. p[a] = Len(c)
    BY <1>2, <1>4, <2>2
  <2> QED
    BY <1>5, <2>2, <2>3
<1>7. V[Len(c)].target = V[Len(c)].speed
  BY <1>3, <1>4 DEF Shown
<1> QED
  BY <1>3, <1>6, <1>7

\* An order joins the story and all lines.
LEMMA OrderJoins ==
  ASSUME RampTypeOK, NEW c, NEW V, NEW p, Accounted(c, V, p), NEW o \in Order,
         told' = told, bus' = Append(bus, o),
         \A n \in RampNodes : engine'[n] \in {engine[n], RampsCancelled(engine[n])}
  PROVE  Accounted(Append(c, o), Continued(c, V, o), p)'
<1>1. Story(c, V) /\ p \in [RampNodes -> Nat]
  BY DEF Accounted
<1>2. Story(Append(c, o), Continued(c, V, o))
  BY <1>1, StoryGrows
<1>3. ASSUME NEW n \in RampNodes
      PROVE  Behind(Line(n), engine[n], p[n], Append(c, o), Continued(c, V, o))'
  <2>1. Line(n) \in Seq(Order) /\ Line(n)' = Append(Line(n), o)
    BY LineType, LineGrows
  <2>2. Behind(Line(n), engine[n], p[n], c, V)
    BY DEF Accounted
  <2>3. Behind(Line(n), RampsCancelled(engine[n]), p[n], c, V)
    BY <1>1, <2>2, BehindCancels
  <2>4. Behind(Line(n), engine'[n], p[n], c, V)
    <3>1. engine'[n] \in {engine[n], RampsCancelled(engine[n])}
      OBVIOUS
    <3> QED
      BY <2>2, <2>3, <3>1
  <2>5. Behind(Append(Line(n), o), engine'[n], p[n], Append(c, o), Continued(c, V, o))
    BY <1>1, <2>1, <2>4, BehindGrows
  <2> QED
    BY <2>1, <2>5
<1> QED
  BY <1>1, <1>2, <1>3 DEF Accounted

\* A speed or a direction joins, or a step: a ramp that goes on keeps its last step waiting.
LEMMA PlainJoins ==
  ASSUME RampTypeOK, NEW c, NEW V, NEW p, Accounted(c, V, p), Carried(c, V, p), NEW o \in Order,
         o.cmd \in {"speed"} \cup Direction, engine' = engine,
         \A n \in RampNodes : \/ rampsWaiting'[n] = rampsWaiting[n]
                              \/ /\ o.cmd = "speed" /\ o.speed = Head(rampsWaiting[n])
                                 /\ rampsWaiting'[n] = Tail(rampsWaiting[n])
  PROVE  Carried(Append(c, o), Continued(c, V, o), p)'
<1> DEFINE N == Len(c)
           c2 == Append(c, o)
           V2 == Continued(c, V, o)
<1>1. Story(c, V)
  BY DEF Accounted
<1>2. N \in Nat /\ V[N] \in Shown
  BY <1>1 DEF Story
<1>3. V2[N + 1] = After(V[N], o) /\ Len(c2) = N + 1
  BY <1>1, StoryGrows
<1> HIDE DEF c2, V2
<1> SUFFICES ASSUME V2[Len(c2)].ramping
             PROVE  \E n \in RampNodes : Carries(rampsWaiting'[n], engine'[n], p[n], c2, V2)
  BY DEF Carried, c2, V2
<1>4. After(V[N], o).ramping
  BY <1>3
<1>5. V[N].ramping /\ (o.cmd = "speed" => After(V[N], o).target = V[N].target
                                          /\ o.speed # After(V[N], o).target)
  BY <1>2, <1>4, RampKept
<1>6. PICK n \in RampNodes : Carries(rampsWaiting[n], engine[n], p[n], c, V)
  BY <1>5 DEF Carried
<1> DEFINE w == rampsWaiting[n]
           x == rampsWaiting'[n]
<1>7. w \in Seq(Speed) /\ w # << >> /\ w[Len(w)] = V[N].target
  BY <1>6 DEF RampTypeOK, Carries
<1>12. x = w \/ (o.cmd = "speed" /\ o.speed = Head(w) /\ x = Tail(w))
  OBVIOUS
<1>13. Carries(w, engine[n], p[n], c, V)
  BY <1>6
<1> HIDE DEF w, x
<1>8. x # << >> /\ x[Len(x)] = w[Len(w)]
  <2>1. CASE x = w
    BY <1>7, <2>1
  <2>2. CASE o.cmd = "speed" /\ o.speed = Head(w) /\ x = Tail(w)
    <3>1. o.speed # w[Len(w)]
      BY <1>5, <1>7, <2>2
    <3>2. Len(w) # 1
      BY <1>7, <2>2, <3>1
    <3>3. Len(Tail(w)) = Len(w) - 1 /\ Len(w) \in Nat /\ Len(w) >= 1
          /\ \A i \in 1 .. Len(w) - 1 : Tail(w)[i] = w[i + 1]
      BY <1>7
    <3>7. ASSUME NEW l \in Nat, l >= 1, l # 1
          PROVE  l - 1 \in 1 .. l - 1 /\ l - 1 + 1 = l /\ l - 1 # 0
      BY <3>7
    <3>4. Len(w) - 1 # 0 /\ Len(w) - 1 \in 1 .. Len(w) - 1 /\ Len(w) - 1 + 1 = Len(w)
      BY <3>2, <3>3, <3>7
    <3>5. Tail(w)[Len(w) - 1] = w[Len(w)]
      BY <3>3, <3>4
    <3>6. Tail(w) # << >>
      BY <3>3, <3>4
    <3> QED
      BY <2>2, <3>3, <3>5, <3>6
  <2> QED
    BY <1>12, <2>1, <2>2
<1>9. p[n] \in 0 .. N
  BY DEF Accounted, Behind
<1>11. Carries(x, engine[n], p[n], c2, V2)
  BY <1>1, <1>4, <1>8, <1>9, <1>13, CarriesGrows DEF c2, V2
<1> QED
  BY <1>11 DEF x

\* A stop or a halt joins: no ramp is left.
LEMMA StopJoins ==
  ASSUME NEW c, NEW V, NEW p, Story(c, V), NEW o \in Order, o.cmd \in {"stop", "halt"}
  PROVE  Carried(Append(c, o), Continued(c, V, o), p)'
<1>1. Len(c) \in Nat /\ V[Len(c)] \in Shown
  BY DEF Story
<1>2. Continued(c, V, o)[Len(c) + 1] = After(V[Len(c)], o) /\ Len(Append(c, o)) = Len(c) + 1
  BY StoryGrows
<1>3. ~After(V[Len(c)], o).ramping
  BY <1>1, RampKept DEF Direction
<1> QED
  BY <1>2, <1>3 DEF Carried


LEMMA AppendedLast ==
  ASSUME NEW a \in Seq(Order), NEW b \in Seq(Order), NEW o \in Order
  PROVE  a \o Append(b, o) = Append(a \o b, o)
OBVIOUS

LEMMA AskRampRests ==
  ASSUME RestInv, RampsWait, NEW n \in RampNodes, NEW s \in Speed, AskRamp(n, s)
  PROVE  \E c, V, p : (Accounted(c, V, p) /\ Carried(c, V, p))'
<1>1. PICK c, V, p : Accounted(c, V, p) /\ Carried(c, V, p)
  BY DEF RestInv
<1>2. RampTypeOK
  BY DEF RestInv
<1> DEFINE N == Len(c)
           o == OrderOf("target", s, n)
           u == OrderOf("speed", s, n)
           c2 == Append(c, o)
           V2 == Continued(c, V, o)
           c3 == Append(c2, u)
           V3 == Continued(c2, V2, u)
           steps == RampSteps(engine[n].speed, s)
<1>3. Story(c, V) /\ o \in Order /\ u \in Order /\ o.cmd = "target" /\ o.speed = s
      /\ u.cmd = "speed" /\ u.speed = s
  BY <1>1, OrderTypes DEF Accounted, OrderOf
<1>4. N \in Nat /\ V[N] \in Shown
  BY <1>3 DEF Story
<1>5. /\ Story(c2, V2)
      /\ V2[N + 1] = After(V[N], o) /\ Len(c2) = N + 1 /\ c2[N + 1] = o
      /\ \A i \in 1 .. N : c2[i] = c[i]
  BY <1>3, StoryGrows
<1>6. After(V[N], o).target = s
  BY <1>3, <1>4, RampKept
<1>7. /\ engine' = [engine EXCEPT ![n] = RampsCancelled(engine[n])] /\ told' = told
      /\ engine \in [RampNodes -> EngineStates]
  BY <1>2 DEF AskRamp, RampTypeOK
<1>8. /\ engine'[n] = RampsCancelled(engine[n])
      /\ \A m \in RampNodes : engine'[m] \in {engine[m], RampsCancelled(engine[m])}
  BY <1>7
<1>9. ~engine'[n].ramping
  BY <1>7, <1>8, CancelDoes
<1>10. \A i \in p[n] + 1 .. N : c[i].cmd = "speed"
  <2> SUFFICES ASSUME NEW i \in p[n] + 1 .. N PROVE c[i].cmd = "speed"
    OBVIOUS
  <2>1. p[n] \in 0 .. N /\ Len(Line(n)) = N - p[n]
        /\ \A j \in 1 .. Len(Line(n)) : Line(n)[j] = c[p[n] + j]
    BY <1>1 DEF Accounted, Behind
  <2>2. Line(n) \in Seq(Order)
    BY <1>2, LineType
  <2>3. ~OnTheWay({"target", "stop", "halt"} \cup Direction)
    BY DEF AskRamp
  <2>4. \A j \in 1 .. Len(Line(n)) : Line(n)[j].cmd \notin {"target", "stop", "halt"} \cup Direction
    BY <2>3 DEF OnTheWay
  <2> DEFINE j == i - p[n]
  <2>5. j \in 1 .. Len(Line(n)) /\ p[n] + j = i
    BY <1>4, <2>1
  <2> HIDE DEF j
  <2>6. Line(n)[j] = c[i] /\ Line(n)[j] \in Order
    BY <2>1, <2>2, <2>5
  <2>7. Line(n)[j].cmd \notin {"target", "stop", "halt"} \cup Direction
    BY <2>4, <2>5
  <2>8. Line(n)[j].cmd \in {"speed", "target", "stop", "halt"} \cup Direction
    BY <2>6, OrderTypes
  <2> QED
    BY <2>6, <2>7, <2>8
<1>11. CASE steps # << >> /\ rampsWaiting' = [rampsWaiting EXCEPT ![n] = steps \o <<s>>]
            /\ bus' = Append(bus, o)
  <2>1. Accounted(c2, V2, p)'
    BY <1>1, <1>2, <1>3, <1>7, <1>8, <1>11, OrderJoins
  <2>2. steps \in Seq(Speed)
    BY <1>2, StepsAreSpeeds DEF RampTypeOK, EngineStates
  <2>3. rampsWaiting'[n] = steps \o <<s>>
    BY <1>2, <1>11 DEF RampTypeOK
  <2> HIDE DEF steps
  <2>4. steps \o <<s>> # << >> /\ (steps \o <<s>>)[Len(steps \o <<s>>)] = s
    BY <2>2
  <2>5. p[n] \in 0 .. N
    BY <1>1 DEF Accounted, Behind
  <2> HIDE DEF o, N
  <2>6. \A i \in p[n] + 1 .. N + 1 :
           /\ i # N + 1 => c2[i].cmd = "speed"
           /\ i = N + 1 => c2[i].cmd = "target"
           /\ \A j \in p[n] + 1 .. i - 1 : c2[j].cmd = "speed"
    BY <1>3, <1>4, <1>5, <1>10, <2>5
  <2> HIDE DEF c2, V2
  <2>7. Carries(rampsWaiting'[n], engine'[n], p[n], c2, V2)
    BY <1>5, <1>6, <1>9, <2>3, <2>4, <2>6 DEF Carries, Direction
  <2>8. Carried(c2, V2, p)'
    BY <2>7 DEF Carried
  <2> QED
    BY <2>1, <2>8
<1>12. CASE bus' = bus \o <<o, u>>
  <2> HIDE DEF o, u
  <2>1. Story(c3, V3) /\ V3[Len(c2) + 1] = After(V2[Len(c2)], u) /\ Len(c3) = Len(c2) + 1
    <3> HIDE DEF c2, V2
    <3>1. Story(c2, V2) /\ u \in Order
      BY <1>3, <1>5
    <3> QED
      BY <3>1, StoryGrows
  <2>2. ASSUME NEW m \in RampNodes
        PROVE  Behind(Line(m), engine[m], p[m], c3, V3)'
    <3>1. Line(m) \in Seq(Order)
      BY <1>2, LineType
    <3>2. Append(Line(m), o) \in Seq(Order)
      BY <1>3, <3>1
    <3>3. Line(m)' = Append(Append(Line(m), o), u)
      <4>1. told[m] \in Seq(Order) /\ bus \in Seq(Order)
        BY <1>2 DEF RampTypeOK
      <4>2. told[m] \o (bus \o <<o, u>>) = Append(Append(told[m] \o bus, o), u)
        <5>1. o \in Order /\ u \in Order /\ Append(bus, o) \in Seq(Order)
          BY <1>3, <4>1
        <5>2. bus \o <<o, u>> = Append(Append(bus, o), u)
          BY <4>1, <5>1
        <5>3. told[m] \o Append(bus, o) = Append(told[m] \o bus, o)
          BY <4>1, <5>1, AppendedLast
        <5>4. told[m] \o Append(Append(bus, o), u) = Append(told[m] \o Append(bus, o), u)
          BY <4>1, <5>1, AppendedLast
        <5> QED
          BY <5>2, <5>3, <5>4
      <4> QED
        BY <1>7, <1>12, <4>2 DEF Line
    <3>4. Behind(Line(m), engine[m], p[m], c, V)
      BY <1>1 DEF Accounted
    <3>5. Behind(Line(m), RampsCancelled(engine[m]), p[m], c, V)
      BY <1>3, <3>4, BehindCancels
    <3>6. Behind(Line(m), engine'[m], p[m], c, V)
      <4>1. engine'[m] \in {engine[m], RampsCancelled(engine[m])}
        BY <1>8
      <4> QED
        BY <3>4, <3>5, <4>1
    <3>7. Behind(Append(Line(m), o), engine'[m], p[m], c2, V2)
      BY <1>3, <3>1, <3>6, BehindGrows
    <3> HIDE DEF c2, V2
    <3>8. Behind(Append(Append(Line(m), o), u), engine'[m], p[m], c3, V3)
      BY <1>3, <1>5, <3>2, <3>7, BehindGrows
    <3> QED
      BY <3>3, <3>8
  <2>3. Accounted(c3, V3, p)'
    BY <1>1, <2>1, <2>2 DEF Accounted
  <2>4. V2[Len(c2)] \in Shown /\ V2[Len(c2)].target = s
    <3>1. After(V[N], o) \in Shown
      BY <1>3, <1>4, AfterShown
    <3> QED
      BY <1>5, <1>6, <3>1
  <2> HIDE DEF c2, V2
  <2>5. ~After(V2[Len(c2)], u).ramping
    BY <1>3, <2>4, RampKept
  <2>6. Carried(c3, V3, p)'
    BY <2>1, <2>5 DEF Carried
  <2> QED
    BY <2>3, <2>6
<1> QED
  BY <1>11, <1>12 DEF AskRamp

LEMMA UpdateRests ==
  ASSUME RestInv, NEW m \in RampNodes, UpdateEngine(m)
  PROVE  \E c, V, p : (Accounted(c, V, p) /\ Carried(c, V, p))'
<1>1. PICK c, V, p : Accounted(c, V, p) /\ Carried(c, V, p)
  BY DEF RestInv
<1>2. RampTypeOK
  BY DEF RestInv
<1> DEFINE o == Head(told[m])
           e == engine[m]
           q == Line(m)
           k == p[m]
           p2 == [p EXCEPT ![m] = k + 1]
<1>3. /\ q \in Seq(Order) /\ q # << >> /\ Head(q) = o /\ Line(m)' = Tail(q)
      /\ \A n \in RampNodes \ {m} : Line(n)' = Line(n)
  BY <1>2, LineType, LineMoves
<1>4. /\ engine'[m] = After(e, o)
      /\ \A n \in RampNodes \ {m} : engine'[n] = engine[n]
  BY <1>2 DEF UpdateEngine, After, RampTypeOK
<1>5. /\ rampsWaiting'[m] = IF DropsSteps(e, o) THEN << >> ELSE rampsWaiting[m]
      /\ \A n \in RampNodes \ {m} : rampsWaiting'[n] = rampsWaiting[n]
  BY <1>2 DEF UpdateEngine, RampTypeOK
<1>6. Story(c, V) /\ p \in [RampNodes -> Nat] /\ \A n \in RampNodes : Behind(Line(n), engine[n], p[n], c, V)
  BY <1>1 DEF Accounted
<1>7. /\ p2 \in [RampNodes -> Nat] /\ p2[m] = k + 1
      /\ \A n \in RampNodes \ {m} : p2[n] = p[n]
  BY <1>6
<1>b. Behind(q, e, k, c, V)
  BY <1>6
<1> HIDE DEF o, e, q, k, p2
<1>8. Behind(Tail(q), After(e, o), k + 1, c, V)
  BY <1>3, <1>6, <1>b, BehindMoves
<1>9. \A n \in RampNodes : Behind(Line(n), engine[n], p2[n], c, V)'
  <2> SUFFICES ASSUME NEW n \in RampNodes PROVE Behind(Line(n)', engine'[n], p2[n], c, V)
    OBVIOUS
  <2>1. CASE n = m
    BY <1>3, <1>4, <1>7, <1>8, <2>1
  <2>2. CASE n # m
    BY <1>3, <1>4, <1>6, <1>7, <2>2
  <2> QED
    BY <2>1, <2>2
<1>10. Accounted(c, V, p2)'
  BY <1>6, <1>7, <1>9 DEF Accounted
<1>11. Carried(c, V, p2)'
  <2> SUFFICES ASSUME V[Len(c)].ramping
               PROVE  \E n \in RampNodes : Carries(rampsWaiting'[n], engine'[n], p2[n], c, V)
    BY DEF Carried
  <2>1. PICK n \in RampNodes : Carries(rampsWaiting[n], engine[n], p[n], c, V)
    BY <1>1 DEF Carried
  <2>2. CASE n = m
    <3>1. Carries(rampsWaiting[m], e, k, c, V)
      BY <2>1, <2>2 DEF e, k
    <3>2. ~DropsSteps(e, o) /\ Carries(rampsWaiting[m], After(e, o), k + 1, c, V)
      BY <1>3, <1>6, <1>b, <3>1, CarriesMoves
    <3> QED
      BY <1>4, <1>5, <1>7, <3>2
  <2>3. CASE n # m
    BY <1>4, <1>5, <1>7, <2>1, <2>3
  <2> QED
    BY <2>2, <2>3
<1> QED
  BY <1>10, <1>11

LEMMA RestStep ==
  ASSUME RestInv, RampsWait, [RampNext]_rampVars
  PROVE  RestInv'
<1>1. RampTypeOK /\ RampTypeOK'
  BY RampTypeStep DEF RestInv
<1>2. PICK c, V, p : Accounted(c, V, p) /\ Carried(c, V, p)
  BY DEF RestInv
<1>3. Story(c, V) /\ p \in [RampNodes -> Nat]
  BY <1>2 DEF Accounted
<1> SUFFICES \E d, W, r : (Accounted(d, W, r) /\ Carried(d, W, r))'
  BY <1>1 DEF RestInv
<1>4. CASE Report
  <2>1. \A n \in RampNodes : Line(n)' = Line(n)
    BY <1>1, <1>4, LineStays
  <2>2. engine' = engine /\ rampsWaiting' = rampsWaiting
    BY <1>4 DEF Report
  <2>3. Accounted(c, V, p)' /\ Carried(c, V, p)'
    BY <1>2, <2>1, <2>2 DEF Accounted, Carried
  <2> QED
    BY <2>3
<1>5. ASSUME NEW n \in RampNodes, NEW s \in Speed, AskRamp(n, s)
      PROVE  \E d, W, r : (Accounted(d, W, r) /\ Carried(d, W, r))'
  BY <1>5, AskRampRests
<1>6. ASSUME NEW o \in Order, o.cmd \in {"stop", "halt"}, bus' = Append(bus, o),
             told' = told, engine' = engine
      PROVE  \E d, W, r : (Accounted(d, W, r) /\ Carried(d, W, r))'
  <2>1. Accounted(Append(c, o), Continued(c, V, o), p)'
    BY <1>1, <1>2, <1>6, OrderJoins
  <2>2. Carried(Append(c, o), Continued(c, V, o), p)'
    BY <1>3, <1>6, StopJoins
  <2> QED
    BY <2>1, <2>2
<1>7. ASSUME NEW o \in Order, o.cmd \in {"speed"} \cup Direction, bus' = Append(bus, o),
             told' = told, engine' = engine,
             \A n \in RampNodes : \/ rampsWaiting'[n] = rampsWaiting[n]
                                  \/ /\ o.cmd = "speed" /\ o.speed = Head(rampsWaiting[n])
                                     /\ rampsWaiting'[n] = Tail(rampsWaiting[n])
      PROVE  \E d, W, r : (Accounted(d, W, r) /\ Carried(d, W, r))'
  <2>1. Accounted(Append(c, o), Continued(c, V, o), p)'
    BY <1>1, <1>2, <1>7, OrderJoins
  <2>2. Carried(Append(c, o), Continued(c, V, o), p)'
    BY <1>1, <1>2, <1>7, PlainJoins
  <2> QED
    BY <2>1, <2>2
<1>8. ASSUME NEW n \in RampNodes, AskStop(n)
      PROVE  \E d, W, r : (Accounted(d, W, r) /\ Carried(d, W, r))'
  <2>1. OrderOf("stop", 0, n) \in Order /\ OrderOf("stop", 0, n).cmd = "stop"
    BY OrderTypes DEF OrderOf
  <2> QED
    BY <1>6, <1>8, <2>1 DEF AskStop
<1>9. ASSUME NEW n \in RampNodes, NEW s \in Speed, NEW cmd, AskPlain(n, cmd, s),
             cmd = "speed" \/ (s = 0 /\ cmd \in {"halt"} \cup Direction)
      PROVE  \E d, W, r : (Accounted(d, W, r) /\ Carried(d, W, r))'
  <2> DEFINE o == OrderOf(cmd, s, n)
  <2>1. o \in Order /\ o.cmd = cmd
    BY <1>9, OrderTypes DEF OrderOf
  <2>2. bus' = Append(bus, o) /\ told' = told /\ engine' = engine /\ rampsWaiting' = rampsWaiting
    BY <1>9 DEF AskPlain
  <2> HIDE DEF o
  <2>3. CASE cmd = "halt"
    BY <1>6, <2>1, <2>2, <2>3
  <2>4. CASE cmd \in {"speed"} \cup Direction
    BY <1>7, <2>1, <2>2, <2>4
  <2> QED
    BY <1>9, <2>3, <2>4
<1>10. ASSUME NEW m \in RampNodes, SendStep(m)
       PROVE  \E d, W, r : (Accounted(d, W, r) /\ Carried(d, W, r))'
  <2> DEFINE o == OrderOf("speed", Head(rampsWaiting[m]), m)
  <2>1. Head(rampsWaiting[m]) \in Speed
    BY <1>1, <1>10 DEF SendStep, RampTypeOK
  <2>2. o \in Order /\ o.cmd = "speed" /\ o.speed = Head(rampsWaiting[m])
    BY <2>1, OrderTypes DEF OrderOf
  <2>3. bus' = Append(bus, o) /\ told' = told /\ engine' = engine
        /\ rampsWaiting' = [rampsWaiting EXCEPT ![m] = Tail(rampsWaiting[m])]
    BY <1>10 DEF SendStep
  <2> HIDE DEF o
  <2>4. \A n \in RampNodes : \/ rampsWaiting'[n] = rampsWaiting[n]
                             \/ /\ o.cmd = "speed" /\ o.speed = Head(rampsWaiting[n])
                                /\ rampsWaiting'[n] = Tail(rampsWaiting[n])
    BY <1>1, <2>2, <2>3 DEF RampTypeOK
  <2>5. o.cmd \in {"speed"} \cup Direction
    BY <2>2
  <2> QED
    BY <1>7, <2>2, <2>3, <2>4, <2>5
<1>11. ASSUME NEW n \in RampNodes, UpdateEngine(n)
       PROVE  \E d, W, r : (Accounted(d, W, r) /\ Carried(d, W, r))'
  BY <1>11, UpdateRests
<1>12. CASE UNCHANGED rampVars
  <2>1. \A n \in RampNodes : Line(n)' = Line(n)
    BY <1>12 DEF rampVars, Line
  <2>2. engine' = engine /\ rampsWaiting' = rampsWaiting
    BY <1>12 DEF rampVars
  <2>3. Accounted(c, V, p)' /\ Carried(c, V, p)'
    BY <1>2, <2>1, <2>2 DEF Accounted, Carried
  <2> QED
    BY <2>3
<1>13. 0 \in Speed
  BY RampFacts
<1> QED
  BY <1>4, <1>5, <1>8, <1>9, <1>10, <1>11, <1>12, <1>13 DEF RampNext

LEMMA RestInit == RampInit => RestInv
<1> SUFFICES ASSUME RampInit PROVE RestInv
  OBVIOUS
<1> DEFINE e == [speed |-> 0, target |-> 0, ramping |-> FALSE, direction |-> "forward",
                 last |-> <<"none", 0>>]
           V == [i \in 0 .. 0 |-> e]
           p == [n \in RampNodes |-> 0]
<1>1. RampTypeOK
  BY RampTypeInit
<1>2. e \in Shown
  <2>1. e \in EngineStates
    BY RampFacts DEF EngineStates, Direction
  <2>2. Marked(e) /\ (e.ramping <=> e.target # e.speed)
    BY DEF Marked, Direction
  <2> QED
    BY <2>1, <2>2 DEF Shown
<1>3. /\ \A n \in RampNodes : engine[n] = e /\ Line(n) = << >>
      /\ ~e.ramping
  BY DEF RampInit, Line
<1> HIDE DEF e
<1>4. Story(<< >>, V)
  BY <1>2 DEF Story
<1>5. V[0] = e
  OBVIOUS
<1> HIDE DEF V
<1>6. \A n \in RampNodes : Behind(Line(n), engine[n], p[n], << >>, V)
  BY <1>3, <1>5 DEF Behind
<1>7. Accounted(<< >>, V, p)
  BY <1>4, <1>6 DEF Accounted
<1>8. Carried(<< >>, V, p)
  BY <1>3, <1>5 DEF Carried
<1> QED
  BY <1>1, <1>7, <1>8 DEF RestInv

\* When no command is under way, every node shows the same engine and none shows a ramp
\* that no step will finish; and no stop leaves a step behind it (EngineState,
\* RampedSpeedReq).  A ramp is asked for when nothing that may cancel it is on its way.
THEOREM RampsEnd == ASSUME RampsWait PROVE RampSpec => []RampSafety
<1>1. RampInit => RestInv
  BY RestInit
<1>2. RestInv /\ [RampNext]_rampVars => RestInv'
  BY RestStep
<1>3. RestInv => AgreeAtRest
  BY RestMeans
<1>4. RampSpec => [](NothingLeftAfterStop /\ NoStepBehindOwnStop)
  BY StopsEndRamps
<1> QED
  BY <1>1, <1>2, <1>3, <1>4, PTL DEF RampSpec, RampSafety

-----------------------------------------------------------------------------
(* The countdown of a launch                                                 *)

USE CountdownAssumption DEF callerVars, stateVars, countdownVars, Callers, Commands

LEMMA TypeInit == LaunchInit => LaunchTypeOK
<1> SUFFICES ASSUME LaunchInit PROVE LaunchTypeOK
  OBVIOUS
<1>1. \A p \in Callers : p # Nobody /\ op[p] = "idle" /\ at[p] = "idle"
  BY DEF LaunchInit
<1>2. /\ op \in [Callers -> Commands \union {"idle", "close", "closed"}]
      /\ at \in [Callers -> {"idle", "lock", "unsubscribe", "body", "join", "finish"}]
      /\ count \in [Threads -> 0 .. MaxTicks]
  BY DEF LaunchInit
<1> QED
  BY <1>1, <1>2 DEF LaunchInit, LaunchTypeOK

LEMMA TypeStep == LaunchTypeOK /\ [LaunchNext]_launchVars => LaunchTypeOK'
<1> SUFFICES ASSUME LaunchTypeOK, [LaunchNext]_launchVars PROVE LaunchTypeOK'
  OBVIOUS
<1> USE DEF LaunchTypeOK
<1>1. ASSUME NEW k \in Commands, Command(k) PROVE LaunchTypeOK'
  <2>1. at[Commander] = "idle" /\ k \notin {"idle", "closed"}
    BY <1>1 DEF Command
  <2>2. /\ op' \in [Callers -> Commands \union {"idle", "close", "closed"}]
        /\ op'[Commander] = k /\ op'[Closer] = op[Closer]
    BY <1>1 DEF Command
  <2>3. /\ at' \in [Callers -> {"idle", "lock", "unsubscribe", "body", "join", "finish"}]
        /\ at'[Commander] = "lock" /\ at'[Closer] = at[Closer]
    BY <1>1 DEF Command
  <2>4. \A p \in Callers :
          /\ (lock' = p) <=> (at'[p] \notin {"idle", "lock"})
          /\ (at'[p] = "idle") <=> (op'[p] \in {"idle", "closed"})
    BY <1>1, <2>1, <2>2, <2>3 DEF Command
  <2>5. chan' = Commander /\ op'[Commander] # "idle"
    BY <1>1, <2>1, <2>2 DEF Command
  <2> QED
    BY <1>1, <2>2, <2>3, <2>4, <2>5 DEF Command
<1>2. CASE Close
  BY <1>2 DEF Close
<1>3. CASE LaunchUnsubscribe
  BY <1>3 DEF LaunchUnsubscribe, StillSubscribed
<1>4. ASSUME NEW p \in Callers, Lock(p) PROVE LaunchTypeOK'
  BY <1>4 DEF Lock
<1>5. ASSUME NEW p \in Callers, Ignore(p) PROVE LaunchTypeOK'
  BY <1>5 DEF Ignore, Leave
<1>6. ASSUME NEW p \in Callers, Stop(p) PROVE LaunchTypeOK'
  BY <1>6 DEF Stop, StopsThread
<1>7. ASSUME NEW p \in Callers, Join(p) PROVE LaunchTypeOK'
  BY <1>7 DEF Join
<1>8. ASSUME NEW p \in Callers, Skip(p) PROVE LaunchTypeOK'
  BY <1>8 DEF Skip
<1>9. ASSUME NEW p \in Callers, Finish(p) PROVE LaunchTypeOK'
  BY <1>9 DEF Finish, Leave
<1>10. ASSUME NEW p \in Callers, Start(p) PROVE LaunchTypeOK'
  BY <1>10 DEF Start, Leave
<1>11. ASSUME NEW c \in Threads, CountdownTimeout(c) PROVE LaunchTypeOK'
  BY <1>11 DEF CountdownTimeout
<1>12. ASSUME NEW c \in Threads, Tick(c) PROVE LaunchTypeOK'
  BY <1>12 DEF Tick
<1>13. ASSUME NEW c \in Threads, End(c) PROVE LaunchTypeOK'
  BY <1>13 DEF End
<1>14. CASE UNCHANGED launchVars
  BY <1>14 DEF launchVars
<1> QED
  BY <1>1, <1>2, <1>3, <1>4, <1>5, <1>6, <1>7, <1>8, <1>9, <1>10, <1>11, <1>12, <1>13, <1>14
     DEF LaunchNext, CallerStep

\* Types and the locks, for any number of countdown threads and ticks.
THEOREM TypeCorrect == LaunchSpec => []LaunchTypeOK
BY TypeInit, TypeStep, PTL DEF LaunchSpec

-----------------------------------------------------------------------------
(* The inductive invariant                                                  *)

\* What each caller can be doing.
Roles ==
  /\ op[Commander] \in Commands \union {"idle"}
  /\ op[Closer] \in {"idle", "close", "closed"}

\* A launch starts its countdown with no other one, and not as aborted.
LaunchIsAlone ==
  \A p \in Callers : op[p] = "launch" =>
    /\ at[p] = "finish" => alive = {}
    /\ at[p] \in {"join", "finish"} => ~aborted

\* Past its join, an abort has no countdown left that could move.
AbortedIsOver ==
  aborted => alive = {} \/ \E p \in Callers : op[p] = "abort" /\ at[p] = "join"

\* close unsubscribes, which waits for a callback under way, and then joins.
CloseIsOver ==
  /\ ~subscribed => op[Commander] = "idle"
  /\ at[Closer] \in {"body", "join", "finish"} \/ op[Closer] = "closed" => ~subscribed
  /\ at[Closer] = "finish" \/ op[Closer] = "closed" => alive = {}

Inv ==
  LaunchTypeOK /\ OneCountdownAtATime /\ Roles /\ LaunchIsAlone /\ AbortedIsOver /\ CloseIsOver

LEMMA InvInit == LaunchInit => Inv
BY TypeInit
   DEF LaunchInit, Inv, OneCountdownAtATime, Roles, LaunchIsAlone, AbortedIsOver, CloseIsOver

\* Only one caller is past _lock.
LEMMA LockIsExclusive ==
  ASSUME LaunchTypeOK, NEW p \in Callers, at[p] \notin {"idle", "lock"}, NEW q \in Callers, q # p
  PROVE  at[q] \in {"idle", "lock"}
BY DEF LaunchTypeOK

LEMMA InvStep == Inv /\ [LaunchNext]_launchVars => Inv'
<1> SUFFICES ASSUME Inv, [LaunchNext]_launchVars PROVE Inv'
  OBVIOUS
<1> USE DEF Inv, OneCountdownAtATime, Roles, LaunchIsAlone, AbortedIsOver, CloseIsOver
<1>0. LaunchTypeOK'
  BY TypeStep
<1> USE DEF LaunchTypeOK
<1>1. ASSUME NEW k \in Commands, Command(k) PROVE Inv'
  BY <1>0, <1>1 DEF Command
<1>2. CASE Close
  BY <1>0, <1>2 DEF Close
<1>3. CASE LaunchUnsubscribe
  BY <1>0, <1>3 DEF LaunchUnsubscribe, StillSubscribed
<1>4. ASSUME NEW p \in Callers, Lock(p) PROVE Inv'
  BY <1>0, <1>4 DEF Lock
<1>5. ASSUME NEW p \in Callers, Ignore(p) PROVE Inv'
  BY <1>0, <1>5 DEF Ignore, Leave, NothingToAbort
<1>6. ASSUME NEW p \in Callers, Stop(p) PROVE Inv'
  BY <1>0, <1>6, LockIsExclusive DEF Stop, StopsThread
<1>7. ASSUME NEW p \in Callers, Join(p) PROVE Inv'
  BY <1>0, <1>7, LockIsExclusive DEF Join, Joined
<1>8. ASSUME NEW p \in Callers, Skip(p) PROVE Inv'
  <2>1. op[p] # "clear" => alive = {}
    BY <1>8 DEF Skip, StopsThread
  <2>2. at'[p] = "finish" /\ \A q \in Callers : q # p => at'[q] = at[q] /\ at[q] \in {"idle", "lock"}
    BY <1>8, LockIsExclusive DEF Skip
  <2>3. aborted' = (op[p] = "abort") /\ op' = op /\ alive' = alive /\ subscribed' = subscribed
    BY <1>8 DEF Skip
  <2>4. at[p] = "body" /\ current' = current
    BY <1>8 DEF Skip
  <2> QED
    BY <1>0, <2>1, <2>2, <2>3, <2>4
<1>9. ASSUME NEW p \in Callers, Finish(p) PROVE Inv'
  BY <1>0, <1>9 DEF Finish, Leave
<1>10. ASSUME NEW p \in Callers, Start(p) PROVE Inv'
  BY <1>0, <1>10, LockIsExclusive DEF Start, Leave
<1>11. ASSUME NEW c \in Threads, CountdownTimeout(c) \/ Tick(c) PROVE Inv'
  BY <1>0, <1>11 DEF CountdownTimeout, Tick
<1>12. ASSUME NEW c \in Threads, End(c) PROVE Inv'
  BY <1>0, <1>12 DEF End
<1>13. CASE UNCHANGED launchVars
  BY <1>0, <1>13 DEF launchVars
<1> QED
  BY <1>1, <1>2, <1>3, <1>4, <1>5, <1>6, <1>7, <1>8, <1>9, <1>10, <1>11, <1>12, <1>13
     DEF LaunchNext, CallerStep

\* A countdown that runs is the one LaunchStatus can stop.
THEOREM CountdownsNeverOverlap == LaunchSpec => []OneCountdownAtATime
<1>1. Inv => OneCountdownAtATime
  BY DEF Inv
<1> QED
  BY InvInit, InvStep, <1>1, PTL DEF LaunchSpec

\* The countdown moves only by a tick, which needs a running thread, or by a launch.
THEOREM AbortsAreFinal == LaunchSpec => AbortedCountdownStops
<1>1. Inv /\ [LaunchNext]_launchVars =>
        [aborted /\ aborted' /\ op[Commander] = "idle" => countdown' = countdown]_launchVars
  <2> SUFFICES ASSUME Inv, [LaunchNext]_launchVars, aborted, aborted', op[Commander] = "idle"
               PROVE  countdown' = countdown
    OBVIOUS
  <2>1. alive = {}
    BY DEF Inv, AbortedIsOver, Roles
  <2>2. ASSUME NEW p \in Callers, CallerStep(p) PROVE countdown' = countdown
    BY <2>2 DEF CallerStep, Lock, Ignore, Stop, Join, Skip, Finish, Start, Inv, Roles
  <2>3. ASSUME NEW c \in Threads PROVE ~Tick(c)
    BY <2>1 DEF Tick, Inv, LaunchTypeOK
  <2> QED
    BY <2>2, <2>3 DEF LaunchNext, Command, Close, LaunchUnsubscribe, CountdownTimeout, End, launchVars
<1> QED
  BY InvInit, InvStep, <1>1, PTL DEF LaunchSpec, AbortedCountdownStops

\* After close, no callback is under way, none can begin, and no thread ticks.
THEOREM CloseIsFinal == LaunchSpec => ClosedMeansSilent
<1>1. Inv /\ [LaunchNext]_launchVars =>
        [op[Closer] = "closed" => ~subscribed /\ countdown' = countdown]_launchVars
  <2> SUFFICES ASSUME Inv, [LaunchNext]_launchVars, op[Closer] = "closed"
               PROVE  ~subscribed /\ countdown' = countdown
    OBVIOUS
  <2>1. alive = {} /\ ~subscribed /\ op[Commander] = "idle"
    BY DEF Inv, CloseIsOver
  <2>2. ASSUME NEW p \in Callers, CallerStep(p) PROVE countdown' = countdown
    BY <2>1, <2>2 DEF CallerStep, Lock, Ignore, Stop, Join, Skip, Finish, Start, Inv, Roles
  <2>3. ASSUME NEW c \in Threads PROVE ~Tick(c)
    BY <2>1 DEF Tick, Inv, LaunchTypeOK
  <2> QED
    BY <2>1, <2>2, <2>3 DEF LaunchNext, Command, Close, LaunchUnsubscribe, CountdownTimeout, End, launchVars
<1> QED
  BY InvInit, InvStep, <1>1, PTL DEF LaunchSpec, ClosedMeansSilent

\* What is over is silent: both of the above.
THEOREM OverIsSilent == LaunchSpec => OverMeansSilent
BY AbortsAreFinal, CloseIsFinal DEF OverMeansSilent

=============================================================================
