----------------------------- MODULE RampedSpeed -----------------------------
\* Ramped speed changes of one engine (src/pytrain/protocol/sequence/
\* ramped_speed_req.py, db/engine_state.py): a ramp is a TARGET_SPEED command
\* sent at once and a series of ABSOLUTE_SPEED commands that wait in the delay
\* handler of the node that asked for it.  The server puts the commands of every
\* node on one line to the Base; what the Base takes is reported to every node,
\* and every node keeps its own state of the engine from these reports.  A report
\* may cancel the steps that still wait at a node.  The moment between a
\* handler's taking of a step and its sending is modelled in DelayHandler.

EXTENDS Integers, Sequences, SequencesExt, FiniteSets

CONSTANTS
    RampNodes,  \* the server and its clients
    TopSpeed,   \* speeds are 0 .. TopSpeed
    RampInc,    \* speed steps of a ramp: 3, 2 or 1 by momentum
    RampAsks,   \* bound: requests of the users
    RampsWait   \* TRUE: a ramp is asked for when no order that may
                \* cancel it is on its way

ASSUME RampAssumption ==
    /\ IsFiniteSet(RampNodes) /\ RampNodes # {}
    /\ TopSpeed \in Nat /\ RampInc \in 1 .. 3 /\ RampAsks \in Nat
    /\ RampsWait \in BOOLEAN

VARIABLES
    engine,   \* [RampNodes -> the node's state of the engine]
    rampsWaiting,  \* [RampNodes -> speed steps in the node's delay handler, by time]
    bus,      \* commands on their way to the Base
    told,     \* [RampNodes -> reports of the Base not yet applied]
    rampsAsked,    \* history: requests made
    lastAsk   \* history: the last request: its kind, its speed, its node

rampVars == <<engine, rampsWaiting, bus, told, rampsAsked, lastAsk>>

Speed == 0 .. TopSpeed
Direction == {"forward", "reverse"}

Order == [cmd : {"speed", "target"}, speed : Speed, from : RampNodes]
            \cup [cmd : {"stop", "halt"} \cup Direction, speed : {0}, from : RampNodes]
OrderOf(cmd, speed, n) == [cmd |-> cmd, speed |-> speed, from |-> n]

\* last: the command of the last update
EngineStates == [speed : Speed, target : Speed, ramping : BOOLEAN, direction : Direction,
                 last : ({"none", "speed", "target", "stop", "halt"} \cup Direction) \X Speed]

RampTypeOK ==
    /\ engine \in [RampNodes -> EngineStates]
    /\ rampsWaiting \in [RampNodes -> Seq(Speed)]
    /\ bus \in Seq(Order)
    /\ told \in [RampNodes -> Seq(Order)]
    /\ rampsAsked \in 0 .. RampAsks
    /\ lastAsk \in Order

\* Orders that node n will still apply, in that order.
Line(n) == told[n] \o bus
OnTheWay(kinds) ==
    \E n \in RampNodes : \E i \in 1 .. Len(Line(n)) : Line(n)[i].cmd \in kinds

-----------------------------------------------------------------------------
\* engine_state.py: the helpers of _update_state

\* update_target_speed() without a target: a ramp ends when it is reached, and
\* without a ramp the target follows the speed.
TargetFollows(e) ==
    IF ~e.ramping THEN [e EXCEPT !.target = e.speed]
    ELSE IF e.speed = e.target THEN [e EXCEPT !.ramping = FALSE]
    ELSE e

\* update_target_speed(target)
NewTarget(e, target) == [e EXCEPT !.ramping = target # e.speed, !.target = target]

\* cancel_ramps(): the steps of this node only are cancelled.
RampsCancelled(e) == [NewTarget(e, e.speed) EXCEPT !.ramping = FALSE]

\* encode(self.speed := s), update_target_speed()
SpeedSet(e, s) == TargetFollows([e EXCEPT !.speed = s])

Cancels(e, c) ==
    \/ c.cmd = "stop"
    \/ c.cmd = "target" /\ e.ramping
    \/ c.cmd \in Direction /\ c.cmd # e.direction
\* A command like the last one is ignored when it comes within a second: equal
\* commands with no other between them are taken to come that soon.
Repeated(e, c) == e.last = <<c.cmd, c.speed>>

\* The dispatcher cancels all of a node's delayed requests before it hands a
\* halt on (command_listener.py).
DropsSteps(e, c) ==
    \/ c.cmd = "halt"
    \/ Cancels(e, c) /\ ~Repeated(e, c)

Updated(e, c) ==
    LET d == IF Cancels(e, c) THEN RampsCancelled(e) ELSE e IN
    CASE c.cmd = "halt"   -> [e EXCEPT !.speed = 0, !.target = 0, !.ramping = FALSE]
      [] c.cmd = "stop"   -> SpeedSet(d, 0)
      [] c.cmd = "speed"  -> SpeedSet(d, c.speed)
      [] c.cmd = "target" -> NewTarget(d, c.speed)
      [] c.cmd \in Direction ->
            IF c.cmd = e.direction THEN e
            ELSE SpeedSet([d EXCEPT !.direction = c.cmd], 0)

-----------------------------------------------------------------------------

\* ramped_speed_req.py: the steps between the speed the node knows and the one
\* asked for; a ramp without steps is one command that does not wait.
RampSteps(from, to) ==
    IF from < to
    THEN [i \in 1 .. (to - from) \div RampInc |-> from + i * RampInc]
    ELSE LET first == from - RampInc
             last  == to + 2  \* range(first, to + 1, -inc) stops above to + 1
         IN [i \in 1 .. IF first < last THEN 0 ELSE (first - last) \div RampInc + 1
                |-> first - (i - 1) * RampInc]

Asking(kind, speed, n) ==
    /\ rampsAsked < RampAsks
    /\ rampsAsked' = rampsAsked + 1
    /\ lastAsk' = OrderOf(kind, speed, n)

\* RampedSpeedReq: built and sent.  Ramps of this node are cancelled first.
AskRamp(n, s) ==
    LET steps == RampSteps(engine[n].speed, s)
        target == OrderOf("target", s, n)
    IN
    /\ RampsWait => ~OnTheWay({"target", "stop", "halt"} \cup Direction)
    /\ Asking("target", s, n)
    /\ engine' = [engine EXCEPT ![n] = RampsCancelled(@)]
    /\ \/ /\ steps # <<>>
          /\ rampsWaiting' = [rampsWaiting EXCEPT ![n] = steps \o <<s>>]
          /\ bus' = Append(bus, target)
       \/ /\ steps = <<>>
          /\ rampsWaiting' = [rampsWaiting EXCEPT ![n] = <<>>]
          /\ bus' = bus \o <<target, OrderOf("speed", s, n)>>
    /\ UNCHANGED told

\* Mutant: a stop cancels only when it is reported.
MutAskStop(n) ==
    /\ Asking("stop", 0, n)
    /\ bus' = Append(bus, OrderOf("stop", 0, n))
    /\ UNCHANGED <<engine, rampsWaiting, told>>

\* STOP_IMMEDIATE or RESET: the steps of this node are cancelled when the
\* command is put on the line, not only when it is reported.
AskStop(n) ==
    /\ Asking("stop", 0, n)
    /\ rampsWaiting' = [rampsWaiting EXCEPT ![n] = <<>>]
    /\ bus' = Append(bus, OrderOf("stop", 0, n))
    /\ UNCHANGED <<engine, told>>

\* A plain speed, a halt or a direction: nothing is cancelled before the Base
\* reports it.
AskPlain(n, cmd, s) ==
    /\ Asking(cmd, s, n)
    /\ bus' = Append(bus, OrderOf(cmd, s, n))
    /\ UNCHANGED <<engine, rampsWaiting, told>>

\* The delay handler's time has come: the first step is put on the line.
SendStep(n) ==
    /\ rampsWaiting[n] # <<>>
    /\ bus' = Append(bus, OrderOf("speed", Head(rampsWaiting[n]), n))
    /\ rampsWaiting' = [rampsWaiting EXCEPT ![n] = Tail(@)]
    /\ UNCHANGED <<engine, told, rampsAsked, lastAsk>>

\* The Base takes a command and every node is told.
Report ==
    /\ bus # <<>>
    /\ told' = [n \in RampNodes |-> Append(told[n], Head(bus))]
    /\ bus' = Tail(bus)
    /\ UNCHANGED <<engine, rampsWaiting, rampsAsked, lastAsk>>

\* EngineState._update_state of a node.
UpdateEngine(n) ==
    /\ told[n] # <<>>
    /\ LET c == Head(told[n]) IN
        /\ engine' = [engine EXCEPT ![n] =
                        IF Repeated(@, c) THEN @ ELSE [Updated(@, c) EXCEPT !.last = <<c.cmd, c.speed>>]]
        /\ rampsWaiting' = [rampsWaiting EXCEPT ![n] = IF DropsSteps(engine[n], c) THEN <<>> ELSE @]
    /\ told' = [told EXCEPT ![n] = Tail(@)]
    /\ UNCHANGED <<bus, rampsAsked, lastAsk>>

RampInit ==
    /\ engine = [n \in RampNodes |->
                    [speed |-> 0, target |-> 0, ramping |-> FALSE,
                     direction |-> "forward", last |-> <<"none", 0>>]]
    /\ rampsWaiting = [n \in RampNodes |-> <<>>]
    /\ bus = <<>>
    /\ told = [n \in RampNodes |-> <<>>]
    /\ rampsAsked = 0
    /\ \E n \in RampNodes : lastAsk = OrderOf("stop", 0, n)

RampNext ==
    \/ Report
    \/ \E n \in RampNodes :
        \/ \E s \in Speed : AskRamp(n, s) \/ AskPlain(n, "speed", s)
        \/ AskStop(n)
        \/ \E kind \in {"halt"} \cup Direction : AskPlain(n, kind, 0)
        \/ SendStep(n)
        \/ UpdateEngine(n)

RampSpec == RampInit /\ [][RampNext]_rampVars

-----------------------------------------------------------------------------
AtRest == bus = <<>> /\ \A n \in RampNodes : told[n] = <<>> /\ rampsWaiting[n] = <<>>

\* When no command is under way the nodes agree on the engine, and none of them
\* shows a ramp that no step will ever finish.
AgreeAtRest ==
    AtRest => \A n, m \in RampNodes :
        /\ engine[n] = engine[m]
        /\ ~engine[n].ramping
        /\ engine[n].target = engine[n].speed

\* Once a stop or a halt has come back to every node and nothing was asked for
\* since, no node has a step left to send.  (Steps sent before a halt came back
\* still follow it and move the engine.)
NothingLeftAfterStop ==
    lastAsk.cmd \in {"stop", "halt"} /\ ~OnTheWay({lastAsk.cmd, "target"}) =>
        \A n \in RampNodes : rampsWaiting[n] = <<>>

\* No step of the node that asked for a stop is on the line behind that stop:
\* STOP_IMMEDIATE and RESET cancel before they are sent, so only the steps of
\* another node can still move the engine.
NoStepBehindOwnStop ==
    lastAsk.cmd = "stop" =>
        \A n \in RampNodes : \A i \in 1 .. Len(Line(n)) :
            Line(n)[i].cmd = "speed" /\ Line(n)[i].from = lastAsk.from
                => \E k \in i + 1 .. Len(Line(n)) : Line(n)[k] = lastAsk

\* A ramp ends with the speed that was asked for: "make sure the final speed is
\* requested" (ramped_speed_req.py:140).  A stop, a
\* turn or a ramp just before it takes its steps away when it is reported.
RampReachesTarget ==
    AtRest /\ lastAsk.cmd = "target" =>
        engine[lastAsk.from].speed = lastAsk.speed

\* Ramps do not outlive what ended them, on any node (cancel_ramps,
\* _cancel_delayed_requests_on_enqueue, update_target_speed).
RampSafety == AgreeAtRest /\ NothingLeftAfterStop /\ NoStepBehindOwnStop
=============================================================================
