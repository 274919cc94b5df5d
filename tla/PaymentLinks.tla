---------------------------- MODULE PaymentLinks ----------------------------
(***************************************************************************)
(* The life of a payment link (src/src/features/links/service.rs) beside   *)
(* the money-moving handlers: claims are those of MoneyMovement, and the   *)
(* creator may cancel while anybody views the public page.  Creating locks *)
(* nothing; cancelling locks the row, decides and commits, holding that    *)
(* one lock only, so it is one action taken while the row is free.  The    *)
(* deadline passes some time after creation, which refuses a TTL under a   *)
(* minute; the PIN a creator enters is PinGuard's.  Viewing is two statements *)
(* outside any transaction: an unlocked SELECT and, for a link found       *)
(* active past its deadline, an UPDATE that does not look again.           *)
(***************************************************************************)
EXTENDS MoneyMovement

CONSTANTS Viewers       \* concurrent calls of get_link_by_token

VARIABLES
    created,            \* the links that exist
    expiring            \* expiring[v]: the link v is about to mark expired

linkVars == <<vars, created, expiring>>

LinkTypeOK ==
    /\ TypeOK
    /\ created \subseteq Links
    /\ expiring \in [Viewers -> created \cup {NoEntity}]

(* A token is random: clients know it only once create_link has answered.  *)
LinkInit == Init /\ created = {} /\ expiring = [v \in Viewers |-> NoEntity]

othersThanLinks == <<balances, transfers, ledger, tx_history, money_requests, ledger_seq,
                     lockVars, redisVars, lapsed, procVars, published>>

CreateLink(l) ==
    /\ l \notin created
    /\ created' = created \cup {l}
    /\ process_events' = process_events \cup {EventRow(l, "created", NoKey)}
    /\ UNCHANGED <<othersThanLinks, payment_links, expiring>>

ViewLink(v, l) ==
    /\ l \in created
    /\ expiring[v] = NoEntity
    /\ payment_links[l].status = "active"
    /\ l \in lapsed
    /\ expiring' = [expiring EXCEPT ![v] = l]
    /\ UNCHANGED <<vars, created>>

MarkExpired(v) ==
    LET l == expiring[v] IN
    /\ l # NoEntity
    /\ entity_lock[l] = NoProc
    /\ payment_links' = [payment_links EXCEPT ![l].status = "expired"]
    /\ expiring' = [expiring EXCEPT ![v] = NoEntity]
    /\ UNCHANGED <<othersThanLinks, process_events, created>>

(* The result of that UPDATE is ignored, and the viewer may hang up.       *)
ViewFails(v) ==
    /\ expiring[v] # NoEntity
    /\ expiring' = [expiring EXCEPT ![v] = NoEntity]
    /\ UNCHANGED <<vars, created>>

CancelLink_NoWait(u, l) ==                      \* mutant: row not locked
    /\ l \in created
    /\ u = LinkRow[l].creator
    /\ payment_links[l].status \notin {"claimed", "expired"}
    /\ payment_links' = [payment_links EXCEPT ![l].status = "cancelled"]
    /\ process_events' = process_events \cup {EventRow(l, "cancelled", NoKey)}
    /\ UNCHANGED <<othersThanLinks, created, expiring>>

(* Only the creator cancels (403 otherwise); a claimed link is a conflict  *)
(* and an expired one is gone.  A cancelled link may be cancelled again.   *)
CancelLink(u, l) ==
    /\ l \in created
    /\ entity_lock[l] = NoProc
    /\ u = LinkRow[l].creator
    /\ payment_links[l].status \notin {"claimed", "expired"}
    /\ payment_links' = [payment_links EXCEPT ![l].status = "cancelled"]
    /\ process_events' = process_events \cup {EventRow(l, "cancelled", NoKey)}
    /\ UNCHANGED <<othersThanLinks, created, expiring>>

LinkStep ==
    \/ \E l \in Links : CreateLink(l)
    \/ \E v \in Viewers : MarkExpired(v) \/ ViewFails(v) \/ \E l \in Links : ViewLink(v, l)
    \/ \E u \in Users, l \in Links : CancelLink(u, l)

(* Calls of the handlers of MoneyMovement name links that exist, and only  *)
(* those have deadlines.                                                   *)
CallsNameLinks ==
    /\ \A p \in Procs : pc'[p] = "lock_entity" /\ job'[p].kind = "claim"
                          => job'[p].entity \in created
    /\ lapsed' \subseteq created
    /\ UNCHANGED <<created, expiring>>
-----------------------------------------------------------------------------
(* A link whose row says claimed has its claimer paid by the transfer it   *)
(* names, whatever viewers and the creator do meanwhile.                   *)
ClaimedLinksArePaid ==
    \A l \in Links : payment_links[l].status = "claimed" =>
        LET k == payment_links[l].transfer_id IN
        /\ k \in Keys
        /\ transfers[k].status = "completed"
        /\ transfers[k].sender = LinkRow[l].creator
        /\ transfers[k].recipient = payment_links[l].claimer_id

(* Once cancelled or expired, a link is never paid: no claim admitted      *)
(* earlier can still commit, and no status change revives the link.        *)
ClosedLinksStayUnpaid ==
    [][\A l \in Links : payment_links[l].status \in {"cancelled", "expired"} =>
          /\ payment_links'[l].status \in {"cancelled", "expired"}
          /\ payment_links'[l].transfer_id = payment_links[l].transfer_id]_linkVars

(* A claim and a cancel never both succeed.                                *)
CancelledLinksAreUnpaid ==
    \A l \in Links :
        EventRow(l, "cancelled", NoKey) \in process_events => SettlingEvents(l) = {}

(* "Handle already claimed link replay vs conflict (C22)"                  *)
(* (links/service.rs:185): whoever claimed the link and claims it again is *)
(* told so.  The viewer's UPDATE can turn the claimed link into an expired *)
(* one, and the claimer is then told it is gone.                           *)
ClaimerGetsReplay ==
    \A p \in Procs :
        /\ pc[p] = "read_entity"
        /\ job[p].kind = "claim"
        /\ payment_links[job[p].entity].claimer_id = job[p].actor
        => payment_links[job[p].entity].status = "claimed"
=============================================================================
