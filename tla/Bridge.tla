------------------------------- MODULE Bridge -------------------------------
(***************************************************************************)
(* The motoview/1 protocol between one open page and the canister: the     *)
(* polling brain of client/src/lib.rs, its hands in                        *)
(* client/glue/motoview.js, and renderBatch and serveEvent of              *)
(* runtime/src/App.mo.                                                     *)
(*                                                                         *)
(* The markup of the page is a function of the canister's state (a query   *)
(* string in the document's URL, which polls do not send, is left out).  A *)
(* batchId is the hash of the markup with the form tokens masked: here it  *)
(* is the view itself.  Several polls and events can be outstanding; they  *)
(* are served and answered in any order, or fail.  Intervals are           *)
(* arbitrary: a timer that is set fires at some time.                      *)
(***************************************************************************)
EXTENDS Integers, FiniteSets

CONSTANTS States,      \* what the page renders from the canister's state
          Initial,     \* the state at the start
          Moves,       \* state -> the states a handler can turn it into
          Closed,      \* the states in which the page is not for this caller any more
          Alert,       \* what a security alert shows
          MayHide,     \* the tab may be hidden and shown again
          PollSlots,   \* bound: outstanding polls
          EventSlots,  \* bound: outstanding events
          MaxMoves     \* bound: changes of the state

ASSUME BridgeConstants ==
    /\ Initial \in States
    /\ Closed \subseteq States
    /\ Alert \notin States
    /\ MayHide \in BOOLEAN
    /\ Moves \in [States -> SUBSET States]
    /\ PollSlots \cap EventSlots = {}
    /\ MaxMoves \in Nat

Slots == PollSlots \cup EventSlots

VARIABLES state,  \* the canister's state
          moves,  \* (bound) changes so far
          dom,    \* what mv-root shows, and last_html: the view last applied
          stamp,  \* last_batch_id
          timer,  \* the timer of the current timer_gen is set
          wire,   \* per slot: an outstanding request or its answer
          leaving, \* a navigation to another document is under way
          touched \* (history) this document sent an event or was shown again

vars == <<state, moves, dom, stamp, timer, wire, leaving, touched>>

\* The page as rendered, or securityErrorBatch: an alert in its place, whose batchId
\* "" no rendered page has.
View == States \cup {Alert}

Free == [kind |-> "free"]
Event == [kind |-> "event"]
Redirect == [kind |-> "redirect"]
Message ==
    {Free, Event, Redirect}
        \cup [kind : {"poll", "unchanged", "changed"}, view : View]

Unsent(s) == wire[s] = Free
-----------------------------------------------------------------------------
\* The server-rendered document of the URL, with its batch as data-mv-batch;
\* mv_start sets the first timer.
Init ==
    /\ state = Initial
    /\ moves = 0
    /\ dom = Initial
    /\ stamp = Initial
    /\ timer = TRUE
    /\ wire = [s \in Slots |-> Free]
    /\ leaving = FALSE
    /\ touched = FALSE

Move(next) ==
    /\ moves < MaxMoves
    /\ next \in Moves[state]
    /\ state' = next
    /\ moves' = moves + 1

(* The canister. *)

\* (mutant: the batches are not compared)
ServePollUnchanged(s) ==
    /\ wire[s].kind = "poll"
    /\ wire' = [wire EXCEPT ![s].kind = "unchanged"]
    /\ UNCHANGED <<state, moves, dom, stamp, timer, leaving, touched>>

\* renderBatch: the page's batch; or, when the page is closed to the caller, a
\* redirect.  (The document that a redirect leads to is another page's, which is
\* open: its polls are answered with a batch.)
Batch(last) == [kind |-> IF state = last THEN "unchanged" ELSE "changed", view |-> state]
ServePoll(s) ==
    /\ wire[s].kind = "poll"
    /\ \E answer \in {Batch(wire[s].view)} \cup {r \in {Redirect} : state \in Closed} :
           wire' = [wire EXCEPT ![s] = answer]
    /\ UNCHANGED <<state, moves, dom, stamp, timer, leaving, touched>>

\* serveEvent: the handler runs, and the answer is the new batch (a validation
\* error is a state of the page too) or a redirect.
ServeEvent(s) ==
    /\ wire[s] = Event
    /\ (\E next \in States : Move(next)) \/ UNCHANGED <<state, moves>>
    /\ \E answer \in {Redirect, [kind |-> "changed", view |-> state']} :
           wire' = [wire EXCEPT ![s] = answer]
    /\ UNCHANGED <<dom, stamp, timer, leaving, touched>>

\* serveEvent of a secure form: the token is refused, no handler runs.
RefuseEvent(s) ==
    /\ wire[s] = Event
    /\ wire' = [wire EXCEPT ![s] = [kind |-> "changed", view |-> Alert]]
    /\ UNCHANGED <<state, moves, dom, stamp, timer, leaving, touched>>

\* The state changes through another client.
OtherCaller ==
    /\ \E next \in States : Move(next)
    /\ UNCHANGED <<dom, stamp, timer, wire, leaving, touched>>

(* The page. *)

\* schedule: a new timer generation, which voids the timer set before.
Schedule == timer' = TRUE

\* mv_on_response: whatever the answer was, the next poll is scheduled.
Answered(s) ==
    /\ wire' = [wire EXCEPT ![s] = Free]
    /\ Schedule

\* poll_render: a poll names the path and the last batchId.
PollRender(s) ==
    /\ Unsent(s)
    /\ wire' = [wire EXCEPT ![s] = [kind |-> "poll", view |-> stamp]]

\* (mutant: the poll names no batch)
FireWithoutStamp(s) ==
    /\ timer
    /\ Unsent(s)
    /\ timer' = FALSE
    /\ wire' = [wire EXCEPT ![s] = [kind |-> "poll"]]
    /\ UNCHANGED <<state, moves, dom, stamp, leaving, touched>>

\* (mutant: the timer that fired stays set)
FireRepeatedly(s) ==
    /\ timer
    /\ PollRender(s)
    /\ UNCHANGED <<state, moves, dom, stamp, timer, leaving, touched>>

\* mv_on_timer of the current generation: poll_render.
Fire(s) ==
    /\ timer
    /\ timer' = FALSE
    /\ PollRender(s)
    /\ UNCHANGED <<state, moves, dom, stamp, leaving, touched>>

\* mv_on_event: send_event.
Emit(s) ==
    /\ Unsent(s)
    /\ wire' = [wire EXCEPT ![s] = Event]
    /\ touched' = TRUE
    /\ UNCHANGED <<state, moves, dom, stamp, timer, leaving>>

\* (mutant: the new markup is applied under the old stamp)
ReceiveChangedKeepingStamp(s) ==
    /\ wire[s].kind = "changed"
    /\ dom' = wire[s].view
    /\ Answered(s)
    /\ UNCHANGED <<state, moves, stamp, leaving, touched>>

\* mv_on_response of a batch: the page and the stamp are replaced.
ReceiveChanged(s) ==
    /\ wire[s].kind = "changed"
    /\ dom' = wire[s].view
    /\ stamp' = wire[s].view
    /\ Answered(s)
    /\ UNCHANGED <<state, moves, leaving, touched>>

ReceiveUnchanged(s) ==
    /\ wire[s].kind = "unchanged"
    /\ stamp' = wire[s].view
    /\ Answered(s)
    /\ UNCHANGED <<state, moves, dom, leaving, touched>>

\* A document is loaded: its state, stamp and first timer are new, and what was
\* outstanding for the old one is gone.
Load ==
    /\ dom' = state
    /\ stamp' = state
    /\ Schedule
    /\ wire' = [s \in Slots |-> Free]
    /\ leaving' = FALSE
    /\ touched' = FALSE
    /\ UNCHANGED <<state, moves>>

\* host_navigate of a redirect batch: until the other document is there, this one
\* goes on.
ReceiveRedirect(s) ==
    /\ wire[s] = Redirect
    /\ leaving' = TRUE
    /\ Answered(s)
    /\ UNCHANGED <<state, moves, dom, stamp, touched>>

\* (mutant: after an error the loop is not resumed)
FailSilently(s) ==
    /\ ~Unsent(s)
    /\ wire' = [wire EXCEPT ![s] = Free]
    /\ UNCHANGED <<state, moves, dom, stamp, timer, leaving, touched>>

\* mv_on_response with status 0 or a server error, or a body that does not parse:
\* the request or its answer was lost, and the loop is resumed after a while.
Fail(s) ==
    /\ ~Unsent(s)
    /\ Answered(s)
    /\ UNCHANGED <<state, moves, dom, stamp, leaving, touched>>

\* mv_on_visibility: becoming visible schedules a poll at once.
Wake ==
    /\ MayHide
    /\ Schedule
    /\ touched' = TRUE
    /\ UNCHANGED <<state, moves, dom, stamp, wire, leaving>>

Serve(s) == ServePoll(s) \/ ServeEvent(s) \/ RefuseEvent(s)
Receive(s) == ReceiveChanged(s) \/ ReceiveUnchanged(s) \/ ReceiveRedirect(s)

Next ==
    \/ \E s \in Slots : Serve(s) \/ Receive(s) \/ Fail(s)
    \/ \E s \in PollSlots : Fire(s)
    \/ \E s \in EventSlots : Emit(s)
    \/ OtherCaller
    \/ Load
    \/ Wake

Spec == Init /\ [][Next]_vars

\* Timers fire, requests end, and the network is not down for ever: polls that
\* are sent again and again are served, and their answers arrive, now and then;
\* a navigation ends with another document.
Fairness ==
    /\ WF_vars(\E s \in PollSlots : Fire(s))
    /\ \A s \in Slots : WF_vars(Serve(s) \/ Receive(s) \/ Fail(s))
    /\ \A s \in PollSlots : SF_vars(ServePoll(s)) /\ SF_vars(Receive(s))
    /\ WF_vars(leaving /\ Load)

FairSpec == Spec /\ Fairness
-----------------------------------------------------------------------------
TypeOK ==
    /\ state \in States
    /\ moves \in 0..MaxMoves
    /\ dom \in View
    /\ stamp \in View
    /\ timer \in BOOLEAN
    /\ wire \in [Slots -> Message]
    /\ leaving \in BOOLEAN
    /\ touched \in BOOLEAN

(* The polling loop never dies: a timer is set or an answer is still to come, *)
(* whatever fails and in whatever order answers arrive (mv_on_response always *)
(* schedules the next poll).                                                  *)
LoopAlive == timer \/ \E s \in Slots : ~Unsent(s)

(* Polls are sent for ever, so the page keeps following the canister.         *)
KeepsPolling == []<>(\E s \in PollSlots : wire[s].kind = "poll")

(* The stamp that a poll sends is the batchId of the markup on the page ("the *)
(* client sends its current batchId as lastBatchId"), until the document      *)
(* sends an event or is hidden and shown again.                               *)
StampIsShown == ~touched => stamp = dom

(* A document that is only watched has one poll at a time, sent or answered   *)
(* for the stamp it shows: what makes StampIsShown inductive.                 *)
OneAtATime ==
    ~touched =>
        /\ timer => \A s \in Slots : Unsent(s)
        /\ \A s, t \in Slots : ~Unsent(s) /\ ~Unsent(t) => s = t
        /\ \A s \in Slots :
              /\ wire[s].kind \in {"free", "poll", "unchanged", "changed", "redirect"}
              /\ wire[s].kind \in {"poll", "unchanged"} => wire[s].view = stamp

(* When the state has stopped changing, the page comes to show it and keeps   *)
(* showing it, but for security alerts ("the browser synchronizes through     *)
(* versioned UI batches").                                                    *)
Converges == <>[](dom \in {state, Alert})

(* A document that from some time on is only watched converges, whatever the  *)
(* documents before it sent and however many polls and answers are lost.      *)
WatchedConverges == <>[]~touched => Converges
=============================================================================
