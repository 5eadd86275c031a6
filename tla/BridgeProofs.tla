---------------------------- MODULE BridgeProofs ----------------------------
(***************************************************************************)
(* Proofs about the protocol between a page and the canister, for any      *)
(* number of outstanding polls and events, and any pages.                  *)
(***************************************************************************)
EXTENDS Bridge, TLAPS

LEMMA TypeInit == Init => TypeOK
<1> SUFFICES ASSUME Init PROVE TypeOK
    OBVIOUS
<1>1. Free \in Message /\ Initial \in View
    BY BridgeConstants DEF Message, View
<1>2. wire \in [Slots -> Message]
    BY <1>1 DEF Init
<1>3. timer \in BOOLEAN /\ leaving \in BOOLEAN /\ touched \in BOOLEAN
    BY DEF Init
<1> QED BY <1>1, <1>2, <1>3, BridgeConstants DEF Init, TypeOK

\* A changed state is a state, and the bound on the changes is kept.
LEMMA MoveType ==
    ASSUME TypeOK, NEW next \in States, Move(next)
    PROVE  state' \in States /\ moves' \in 0..MaxMoves
BY BridgeConstants DEF TypeOK, Move

LEMMA TypeStep == TypeOK /\ [Next]_vars => TypeOK'
<1> SUFFICES ASSUME TypeOK, [Next]_vars PROVE TypeOK'
    OBVIOUS
<1> USE BridgeConstants DEF TypeOK
<1>0. /\ Free \in Message /\ Event \in Message /\ Redirect \in Message
      /\ \A v \in View : \A k \in {"poll", "unchanged", "changed"} :
            [kind |-> k, view |-> v] \in Message
    BY DEF Message
<1>v. /\ Alert \in View
      /\ States \subseteq View
    BY DEF View
<1>m. \A m \in Message : m.kind \in {"poll", "unchanged", "changed"} => m.view \in View
    BY DEF Message, Free, Event, Redirect
<1>1. ASSUME NEW s \in Slots, ServePoll(s) PROVE TypeOK'
    <2>1. PICK answer \in {Batch(wire[s].view)} \cup {r \in {Redirect} : state \in Closed} :
              wire' = [wire EXCEPT ![s] = answer]
        BY <1>1 DEF ServePoll
    <2>2. Batch(wire[s].view) \in Message
        BY <1>0, <1>v DEF Batch
    <2>3. answer \in Message
        BY <1>0, <2>2
    <2> QED BY <1>1, <2>1, <2>3 DEF ServePoll
<1>2. ASSUME NEW s \in Slots, ServeEvent(s) PROVE TypeOK'
    <2>1. state' \in States /\ moves' \in 0..MaxMoves
        BY <1>2, MoveType DEF ServeEvent
    <2>2. PICK answer \in {Redirect, [kind |-> "changed", view |-> state']} :
              wire' = [wire EXCEPT ![s] = answer]
        BY <1>2 DEF ServeEvent
    <2>3. answer \in Message
        BY <2>1, <1>0, <1>v
    <2> QED BY <1>2, <2>1, <2>2, <2>3 DEF ServeEvent
<1>3. ASSUME NEW s \in Slots, RefuseEvent(s) PROVE TypeOK'
    BY <1>3, <1>0, <1>v DEF RefuseEvent
<1>4. ASSUME NEW s \in Slots, Receive(s) PROVE TypeOK'
    <2>1. CASE ReceiveChanged(s)
        BY <2>1, <1>0, <1>m DEF ReceiveChanged, Answered, Schedule
    <2>2. CASE ReceiveUnchanged(s)
        BY <2>2, <1>0, <1>m DEF ReceiveUnchanged, Answered, Schedule
    <2>3. CASE ReceiveRedirect(s)
        BY <2>3, <1>0 DEF ReceiveRedirect, Answered, Schedule
    <2> QED BY <1>4, <2>1, <2>2, <2>3 DEF Receive
<1>5. ASSUME NEW s \in Slots, Fail(s) PROVE TypeOK'
    BY <1>5, <1>0 DEF Fail, Answered, Schedule
<1>6. ASSUME NEW s \in PollSlots, Fire(s) PROVE TypeOK'
    BY <1>6, <1>0 DEF Fire, PollRender, Slots
<1>7. ASSUME NEW s \in EventSlots, Emit(s) PROVE TypeOK'
    BY <1>7, <1>0 DEF Emit, Slots
<1>8. CASE OtherCaller
    BY <1>8, MoveType DEF OtherCaller
<1>9. CASE Load
    BY <1>9, <1>0, <1>v DEF Load, Schedule
<1>10. CASE Wake
    BY <1>10 DEF Wake, Schedule
<1>11. CASE UNCHANGED vars
    BY <1>11 DEF vars
<1> QED
    BY <1>1, <1>2, <1>3, <1>4, <1>5, <1>6, <1>7, <1>8, <1>9, <1>10, <1>11
       DEF Next, Serve

(* Every reachable state is well typed. *)
THEOREM TypesHold == Spec => []TypeOK
<1>1. Init => TypeOK
    BY TypeInit
<1>2. TypeOK /\ [Next]_vars => TypeOK'
    BY TypeStep
<1> QED BY <1>1, <1>2, PTL DEF Spec
-----------------------------------------------------------------------------
LEMMA LoopStep == TypeOK /\ LoopAlive /\ [Next]_vars => LoopAlive'
<1> SUFFICES ASSUME TypeOK, LoopAlive, [Next]_vars PROVE LoopAlive'
    OBVIOUS
<1> USE DEF LoopAlive, Unsent, TypeOK
<1>1. ASSUME NEW s \in Slots, Serve(s) PROVE LoopAlive'
    <2>1. wire'[s] # Free
        BY <1>1 DEF Serve, ServePoll, ServeEvent, RefuseEvent, Batch, Free, Redirect
    <2> QED BY <1>1, <2>1
<1>2. ASSUME NEW s \in Slots, Receive(s) \/ Fail(s) PROVE LoopAlive'
    BY <1>2 DEF Receive, ReceiveChanged, ReceiveUnchanged, ReceiveRedirect, Fail,
       Answered, Schedule
<1>3. ASSUME NEW s \in PollSlots, Fire(s) PROVE LoopAlive'
    BY <1>3 DEF Fire, PollRender, Slots, Free
<1>4. ASSUME NEW s \in EventSlots, Emit(s) PROVE LoopAlive'
    BY <1>4 DEF Emit, Slots, Event, Free
<1>5. CASE OtherCaller \/ Load \/ Wake
    BY <1>5 DEF OtherCaller, Load, Wake, Schedule
<1>6. CASE UNCHANGED vars
    BY <1>6 DEF vars
<1> QED BY <1>1, <1>2, <1>3, <1>4, <1>5, <1>6 DEF Next

(* The polling loop never dies: whatever fails and whatever order answers     *)
(* arrive in, a timer is set or an answer is still to come.                   *)
THEOREM LoopAliveHolds == Spec => []LoopAlive
<1>1. Init => LoopAlive
    BY DEF Init, LoopAlive
<1>2. TypeOK /\ LoopAlive /\ [Next]_vars => LoopAlive'
    BY LoopStep
<1> QED BY <1>1, <1>2, TypesHold, PTL DEF Spec
-----------------------------------------------------------------------------
LEMMA WatchStep ==
    TypeOK /\ OneAtATime /\ StampIsShown /\ [Next]_vars
        => OneAtATime' /\ StampIsShown'
<1> SUFFICES ASSUME TypeOK, OneAtATime, StampIsShown, [Next]_vars
             PROVE  OneAtATime' /\ StampIsShown'
    OBVIOUS
<1> USE DEF TypeOK, Unsent, Free
<1>0. CASE touched'
    BY <1>0 DEF OneAtATime, StampIsShown
<1>1. CASE ~touched' /\ Load
    BY <1>1 DEF Load, OneAtATime, StampIsShown
<1>2. CASE ~touched' /\ ~Load
    <2>2. ~touched
        BY <1>2 DEF Next, vars, Serve, ServePoll, ServeEvent, RefuseEvent, Receive,
           ReceiveChanged, ReceiveUnchanged, ReceiveRedirect, Fail, Fire, Emit, OtherCaller, Wake
    <2>3. stamp = dom /\ (timer => \A s \in Slots : Unsent(s))
        BY <2>2 DEF StampIsShown, OneAtATime
    <2>4. \A s, t \in Slots : ~Unsent(s) /\ ~Unsent(t) => s = t
        BY <2>2 DEF OneAtATime
    <2>5. \A s \in Slots :
              /\ wire[s].kind \in {"free", "poll", "unchanged", "changed", "redirect"}
              /\ wire[s].kind \in {"poll", "unchanged"} => wire[s].view = stamp
        BY <2>2 DEF OneAtATime
    <2>6. ASSUME NEW s \in Slots, ServePoll(s) PROVE OneAtATime' /\ StampIsShown'
        <3>1. PICK answer \in {Batch(wire[s].view)} \cup {r \in {Redirect} : state \in Closed} :
                  wire' = [wire EXCEPT ![s] = answer]
            BY <2>6 DEF ServePoll
        <3>2. ~timer /\ wire[s].view = stamp /\ wire[s].kind = "poll"
            BY <2>3, <2>5, <2>6 DEF ServePoll
        <3>3. /\ answer.kind \in {"unchanged", "changed", "redirect"}
              /\ answer.kind = "unchanged" => answer.view = stamp
            BY <3>2 DEF Batch, Redirect
        <3>4. /\ wire'[s] = answer
              /\ \A t \in Slots \ {s} : wire'[t] = wire[t]
            BY <3>1
        <3>5. \A t \in Slots \ {s} : Unsent(t)
            BY <2>4, <3>2
        <3>6. UNCHANGED <<timer, stamp, dom>>
            BY <2>6 DEF ServePoll
        <3> QED BY <2>3, <3>2, <3>3, <3>4, <3>5, <3>6 DEF OneAtATime, StampIsShown
    <2>7. ASSUME NEW s \in Slots, ServeEvent(s) \/ RefuseEvent(s) PROVE FALSE
        BY <2>5, <2>7 DEF ServeEvent, RefuseEvent, Event
    <2>8. ASSUME NEW s \in Slots, Receive(s) \/ Fail(s) PROVE OneAtATime' /\ StampIsShown'
        <3> USE DEF Receive, ReceiveChanged, ReceiveUnchanged, ReceiveRedirect, Fail
        <3>1. ~Unsent(s)
            BY <2>8 DEF Redirect
        <3>2. \A t \in Slots : t # s => Unsent(t)
            BY <2>4, <3>1
        <3>3. \A t \in Slots : wire'[t] = Free
            BY <2>8, <3>2 DEF Answered
        <3>4. stamp' = dom'
            BY <2>3, <2>5, <2>8
        <3> QED BY <3>3, <3>4 DEF OneAtATime, StampIsShown
    <2>9. ASSUME NEW s \in PollSlots, Fire(s) PROVE OneAtATime' /\ StampIsShown'
        <3>1. /\ ~timer'
              /\ wire' = [wire EXCEPT ![s] = [kind |-> "poll", view |-> stamp]]
              /\ \A t \in Slots : Unsent(t)
              /\ stamp' = stamp /\ dom' = dom
            BY <2>3, <2>9 DEF Fire, PollRender, Slots
        <3> QED BY <2>3, <3>1 DEF OneAtATime, StampIsShown, Slots
    <2>10. CASE OtherCaller \/ UNCHANGED vars
        BY <2>2, <2>3, <2>4, <2>5, <2>10 DEF OtherCaller, vars, OneAtATime, StampIsShown
    <2>11. ASSUME NEW s \in EventSlots, Emit(s) PROVE FALSE
        BY <1>2, <2>11 DEF Emit
    <2>12. CASE Wake
        BY <1>2, <2>12 DEF Wake
    <2> QED BY <1>2, <2>6, <2>7, <2>8, <2>9, <2>10, <2>11, <2>12 DEF Next, Serve
<1> QED BY <1>0, <1>1, <1>2

(* A document that has sent no event and was never hidden polls one at a time *)
(* and always with the batchId of the markup it shows, however many slots     *)
(* there are: events and the visibility handler are what makes polls overlap. *)
THEOREM WatchedStampIsShown == Spec => [](OneAtATime /\ StampIsShown)
<1>1. Init => OneAtATime /\ StampIsShown
    BY DEF Init, OneAtATime, StampIsShown, Unsent, Free
<1>2. TypeOK /\ (OneAtATime /\ StampIsShown) /\ [Next]_vars => (OneAtATime /\ StampIsShown)'
    BY WatchStep
<1> QED BY <1>1, <1>2, TypesHold, PTL DEF Spec

(* A document that is only watched has one request at a time, and its answer  *)
(* is for the stamp the page shows (schedule, poll_render, mv_on_response).   *)
THEOREM OneAtATimeHolds == Spec => []OneAtATime
<1> QED BY WatchedStampIsShown, PTL
=============================================================================
