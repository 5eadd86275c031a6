-------------------------- MODULE SingleUseTickets --------------------------
(***************************************************************************)
(* What the secure-form and spend tokens of a MotoView canister promise,   *)
(* without the MACs, the nonce store, its pruning or the upgrades that the *)
(* code needs to keep the promise: a ticket is issued to one caller for    *)
(* one purpose, no two tickets are alike, and a ticket is redeemed at most *)
(* once, by that caller, for that purpose, before its deadline.            *)
(***************************************************************************)
EXTENDS Integers, Sequences

VARIABLES clock,       \* the time of the block that is executing
          issued,      \* the tickets handed out: [caller, intent, expiry, nonce]
          redemptions  \* the history of redemptions: [ticket, by, intent]

ticketVars == <<clock, issued, redemptions>>

TicketInit ==
    /\ clock = 0
    /\ issued = {}
    /\ redemptions = <<>>

\* Entry i of the extended history redeems a ticket that was handed out by an
\* earlier request, is alive, was never redeemed, and is presented by its owner
\* for what it was issued for.
Redeemable(past, i) ==
    LET r == past[i]
    IN  /\ r.ticket \in issued
        /\ clock <= r.ticket.expiry
        /\ r.by = r.ticket.caller
        /\ r.intent = r.ticket.intent
        /\ \A j \in 1..(i - 1) : past[j].ticket # r.ticket

\* One request: tickets with new nonces are handed out, others are redeemed.
Request ==
    /\ UNCHANGED clock
    /\ issued \subseteq issued'
    /\ \A t \in issued' \ issued : \A u \in issued' : t.nonce = u.nonce => t = u
    /\ Len(redemptions) <= Len(redemptions')
    /\ \A i \in 1..Len(redemptions) : redemptions'[i] = redemptions[i]
    /\ \A i \in (Len(redemptions) + 1)..Len(redemptions') :
           Redeemable(redemptions', i)

Elapse ==
    /\ clock' > clock
    /\ UNCHANGED <<issued, redemptions>>

TicketNext == Request \/ Elapse

TicketSpec == TicketInit /\ [][TicketNext]_ticketVars
=============================================================================
