---------------------------- MODULE DealPipeline ----------------------------
(***************************************************************************)
(* From an interested lead to a paid deal: demo and proposal, the sale,    *)
(* the site, the invoice, the payment.                                     *)
(*                                                                         *)
(* The stages select leads by status and move them on with                 *)
(* transition_lead, whose answer nobody looks at; each may run in several  *)
(* invocations at once (the pipeline loop, queue and A2A handlers), and    *)
(* each may raise, or die with its process, between any two statements.    *)
(***************************************************************************)
EXTENDS Naturals, LeadStateMachine

CONSTANTS
  Lead,
  Worker,          \* invocations, each with one lead or payment in hand
  None,
  Providers,       \* configured payment providers: "stripe", "wise"
  SalesThreshold,  \* sales_before_autonomy
  MaxItem,         \* bound: review_queue rows with a proposal
  MaxDeal,         \* bound: rows of deals
  MaxRef,          \* bound: references the providers hand out
  MaxSale,         \* bound: the sales counter stops here
  MaxFault         \* bound: statements that raise, processes that die

ASSUME DealAssumption ==
  /\ None \notin Lead
  /\ Providers \subseteq {"stripe", "wise"} /\ Providers # {}
  /\ SalesThreshold \in Nat /\ MaxItem \in Nat /\ MaxDeal \in Nat
  /\ MaxRef \in Nat /\ MaxSale \in Nat /\ MaxFault \in Nat
  /\ SalesThreshold <= MaxSale

VARIABLES
  status,                \* clients.status
  item, nextItem,        \* review_queue: proposals
  sales,                 \* system_config.sales_completed
  deal, nextDeal,        \* deals
  linkOf, refOwner, nextRef, \* the providers: Stripe's link under the lead's
                         \* idempotency key, whom a reference was issued for
  reported,              \* references check_new_payments reports
  job,                   \* what each worker is doing
  faults,
  \* history
  live,         \* leads whose site was deployed
  received,     \* references that were reported at some time
  dropped,      \* leads whose stage failed after it had moved them on
  contended,    \* leads two invocations invoiced at the same time
  early,        \* leads whose payment was booked before they were invoiced
  overwritten   \* leads whose status was written over unread

reviewVars   == <<item, nextItem>>
dealVars     == <<deal, nextDeal>>
providerVars == <<linkOf, refOwner, nextRef, reported, received>>
historyVars  == <<dropped, contended, early, overwritten>>
vars == <<status, reviewVars, sales, dealVars, providerVars, job, faults, live, historyVars>>

Item == 1 .. MaxItem
Deal == 1 .. MaxDeal
Ref  == 1 .. MaxRef

NoItem == [lead |-> None, status |-> "absent"]
NoDeal == [lead |-> None, ref |-> 0, status |-> "absent"]

Points == {"idle", "demo", "propose", "offer", "tally", "build", "lookup",
           "create", "insert", "book", "check", "write", "approved"}

\* In hand: the lead, the item, the deal and the reference; whether a proposal
\* needs approval; the status to move to, the one that was read, and the point
\* to go on from once transition_lead has returned.
Idle == [at |-> "idle", lead |-> None, item |-> 0, deal |-> 0, ref |-> 0,
         ask |-> FALSE, target |-> "none", read |-> "none", then |-> "none"]

Init ==
  /\ status = [l \in Lead |-> "interested"]
  /\ item = [i \in Item |-> NoItem] /\ nextItem = 1
  /\ sales \in 0 .. MaxSale
  /\ deal = [d \in Deal |-> NoDeal] /\ nextDeal = 1
  /\ linkOf = [l \in Lead |-> 0] /\ refOwner = [r \in Ref |-> None] /\ nextRef = 1
  /\ reported = {} /\ received = {}
  /\ job = [w \in Worker |-> Idle]
  /\ faults = 0
  /\ live = {} /\ dropped = {} /\ contended = {} /\ early = {} /\ overwritten = {}

(***************************************************************************)
(* Building blocks                                                         *)
(***************************************************************************)

HasItem(l)    == \E i \in Item : item[i].lead = l
HasPending(l) == \E d \in Deal : deal[d].lead = l /\ deal[d].status = "pending"

Begins(w, j) == job[w] = Idle /\ job' = [job EXCEPT ![w] = j]
Goes(w, at)  == job' = [job EXCEPT ![w].at = at]
Stops(w)     == job' = [job EXCEPT ![w] = Idle]

\* The worker calls transition_lead and goes on at "then".
Moves(w, target, then) ==
  job' = [job EXCEPT ![w].at = "check", ![w].target = target, ![w].then = then]

(***************************************************************************)
(* transition_lead: a SELECT, then an UPDATE by id                         *)
(***************************************************************************)

\* Every caller goes on in the same way whether the transition was made or not.
Returns(w) ==
  IF job[w].then = "idle" THEN Stops(w)
  ELSE job' = [job EXCEPT ![w].at = job[w].then, ![w].target = "none",
                          ![w].read = "none", ![w].then = "none"]

CheckTransition(w) ==
  /\ job[w].at = "check"
  /\ can_transition(status[job[w].lead], job[w].target)
  /\ job' = [job EXCEPT ![w].at = "write", ![w].read = status[job[w].lead]]
  /\ UNCHANGED <<status, reviewVars, sales, dealVars, providerVars, faults, live, historyVars>>

Refused(w) ==
  /\ job[w].at = "check"
  /\ ~can_transition(status[job[w].lead], job[w].target)
  /\ Returns(w)
  /\ UNCHANGED <<status, reviewVars, sales, dealVars, providerVars, faults, live, historyVars>>

WriteTransition(w) ==
  /\ job[w].at = "write"
  /\ LET l == job[w].lead IN
       /\ status' = [status EXCEPT ![l] = job[w].target]
       /\ live' = IF job[w].target = "deployed" THEN live \cup {l} ELSE live
       /\ overwritten' = IF status[l] = job[w].read THEN overwritten ELSE overwritten \cup {l}
  /\ Returns(w)
  /\ UNCHANGED <<reviewVars, sales, dealVars, providerVars, faults, dropped, contended, early>>

(***************************************************************************)
(* Demo, proposal, sale                                                    *)
(***************************************************************************)

\* A wrong version: one proposal too early without the operator.
process_interested_leads_early(w, l) ==
  /\ status[l] = "interested"
  /\ Begins(w, [Idle EXCEPT !.at = "demo", !.lead = l, !.ask = sales + 1 < SalesThreshold])
  /\ UNCHANGED <<status, reviewVars, sales, dealVars, providerVars, faults, live, historyVars>>

\* Whether the operator must approve is read before the demo is built.
process_interested_leads(w, l) ==
  /\ status[l] = "interested"
  /\ Begins(w, [Idle EXCEPT !.at = "demo", !.lead = l, !.ask = sales < SalesThreshold])
  /\ UNCHANGED <<status, reviewVars, sales, dealVars, providerVars, faults, live, historyVars>>

\* The demo passed, or nobody could look at it.
DemoAccepted(w) ==
  /\ job[w].at = "demo"
  /\ Moves(w, "demo_built", "propose")
  /\ UNCHANGED <<status, reviewVars, sales, dealVars, providerVars, faults, live, historyVars>>

\* No demo, or it did not pass: the lead is tried again in the next cycle.
DemoBlocked(w) ==
  /\ job[w].at = "demo"
  /\ Stops(w)
  /\ UNCHANGED <<status, reviewVars, sales, dealVars, providerVars, faults, live, historyVars>>

\* A wrong version: the proposal that needs approval is forgotten.
ProposeNothing(w) ==
  /\ job[w].at = "propose"
  /\ IF job[w].ask THEN Stops(w) ELSE Goes(w, "offer")
  /\ UNCHANGED <<status, reviewVars, sales, dealVars, providerVars, faults, live, historyVars>>

Propose(w) ==
  /\ job[w].at = "propose"
  /\ IF job[w].ask
     THEN /\ nextItem <= MaxItem
          /\ item' = [item EXCEPT ![nextItem] =
                        [lead |-> job[w].lead, status |-> "pending_review"]]
          /\ nextItem' = nextItem + 1
          /\ Stops(w)
     ELSE Goes(w, "offer") /\ UNCHANGED reviewVars
  /\ UNCHANGED <<status, sales, dealVars, providerVars, faults, live, historyVars>>

OfferSent(w) ==
  /\ job[w].at = "offer"
  /\ Moves(w, "proposal_sent", "idle")
  /\ UNCHANGED <<status, reviewVars, sales, dealVars, providerVars, faults, live, historyVars>>

\* "lead stays at current state", which no stage selects.
OfferFailed(w) ==
  /\ job[w].at = "offer"
  /\ Stops(w)
  /\ dropped' = dropped \cup {job[w].lead}
  /\ UNCHANGED <<status, reviewVars, sales, dealVars, providerVars, faults, live,
                 contended, early, overwritten>>

\* The operator approves any item, whatever became of it; a send that fails
\* changes nothing.
approve_review(w, i) ==
  /\ item[i] # NoItem
  /\ Begins(w, [Idle EXCEPT !.at = "check", !.lead = item[i].lead, !.item = i,
                            !.target = "proposal_sent", !.then = "approved"])
  /\ UNCHANGED <<status, reviewVars, sales, dealVars, providerVars, faults, live, historyVars>>

MarkApproved(w) ==
  /\ job[w].at = "approved"
  /\ item' = [item EXCEPT ![job[w].item].status = "approved"]
  /\ Stops(w)
  /\ UNCHANGED <<status, nextItem, sales, dealVars, providerVars, faults, live, historyVars>>

reject_review(i) ==
  /\ item[i] # NoItem
  /\ item' = [item EXCEPT ![i].status = "rejected"]
  /\ UNCHANGED <<status, nextItem, sales, dealVars, providerVars, job, faults, live, historyVars>>

\* A sale is confirmed, whatever status the lead has: the counter does not
\* depend on the transition.
mark_sale_closed(w, l) ==
  /\ Begins(w, [Idle EXCEPT !.at = "check", !.lead = l, !.target = "closed", !.then = "tally"])
  /\ UNCHANGED <<status, reviewVars, sales, dealVars, providerVars, faults, live, historyVars>>

Tally(w) ==
  /\ job[w].at = "tally"
  /\ sales' = IF sales < MaxSale THEN sales + 1 ELSE sales
  /\ Stops(w)
  /\ UNCHANGED <<status, reviewVars, dealVars, providerVars, faults, live, historyVars>>

(***************************************************************************)
(* The site                                                                *)
(***************************************************************************)

build_sites(w, l) ==
  /\ status[l] = "closed"
  /\ Begins(w, [Idle EXCEPT !.at = "check", !.lead = l, !.target = "building", !.then = "build"])
  /\ UNCHANGED <<status, reviewVars, sales, dealVars, providerVars, faults, live, historyVars>>

SiteBuilt(w) ==
  /\ job[w].at = "build"
  /\ Moves(w, "deployed", "idle")
  /\ UNCHANGED <<status, reviewVars, sales, dealVars, providerVars, faults, live, historyVars>>

\* No URL: the lead stays in "building", which no stage selects.
SiteFailed(w) ==
  /\ job[w].at = "build"
  /\ Stops(w)
  /\ dropped' = dropped \cup {job[w].lead}
  /\ UNCHANGED <<status, reviewVars, sales, dealVars, providerVars, faults, live,
                 contended, early, overwritten>>

(***************************************************************************)
(* The invoice                                                             *)
(***************************************************************************)

\* A worker sends this lead's invoice, or has still to record that it did.
Bills(w, l) == /\ job[w].lead = l
               /\ job[w].at \in {"lookup", "create", "insert"} \/ job[w].target = "invoiced"

send_invoices(w, l) ==
  /\ status[l] = "deployed"
  /\ Begins(w, [Idle EXCEPT !.at = "lookup", !.lead = l])
  /\ contended' = IF \E v \in Worker : Bills(v, l)
                  THEN contended \cup {l} ELSE contended
  /\ UNCHANGED <<status, reviewVars, sales, dealVars, providerVars, faults, live,
                 dropped, early, overwritten>>

\* A wrong version: a pending deal is not reused.
FindDealNever(w) ==
  /\ job[w].at = "lookup"
  /\ Goes(w, "create")
  /\ UNCHANGED <<status, reviewVars, sales, dealVars, providerVars, faults, live, historyVars>>

FindDeal(w) ==
  /\ job[w].at = "lookup"
  /\ IF HasPending(job[w].lead) THEN Moves(w, "invoiced", "idle") ELSE Goes(w, "create")
  /\ UNCHANGED <<status, reviewVars, sales, dealVars, providerVars, faults, live, historyVars>>

FreshRef(w) ==
  /\ nextRef <= MaxRef
  /\ refOwner' = [refOwner EXCEPT ![nextRef] = job[w].lead]
  /\ nextRef' = nextRef + 1
  /\ job' = [job EXCEPT ![w].at = "insert", ![w].ref = nextRef]

\* Stripe hands out one link under one idempotency key.
CreateStripe(w) ==
  /\ job[w].at = "create" /\ "stripe" \in Providers
  /\ IF linkOf[job[w].lead] # 0
     THEN /\ job' = [job EXCEPT ![w].at = "insert", ![w].ref = linkOf[job[w].lead]]
          /\ UNCHANGED <<linkOf, refOwner, nextRef>>
     ELSE FreshRef(w) /\ linkOf' = [linkOf EXCEPT ![job[w].lead] = nextRef]
  /\ UNCHANGED <<status, reviewVars, sales, dealVars, reported, received, faults, live, historyVars>>

\* Wise makes a new quote each time; it is asked when there is no Stripe, or
\* when Stripe raised.
CreateWise(w) ==
  /\ job[w].at = "create" /\ "wise" \in Providers
  /\ IF "stripe" \in Providers
     THEN faults < MaxFault /\ faults' = faults + 1
     ELSE UNCHANGED faults
  /\ FreshRef(w)
  /\ UNCHANGED <<status, reviewVars, sales, dealVars, linkOf, reported, received, live, historyVars>>

InsertDeal(w) ==
  /\ job[w].at = "insert" /\ nextDeal <= MaxDeal
  /\ deal' = [deal EXCEPT ![nextDeal] =
                [lead |-> job[w].lead, ref |-> job[w].ref, status |-> "pending"]]
  /\ nextDeal' = nextDeal + 1
  /\ Moves(w, "invoiced", "idle")
  /\ UNCHANGED <<status, reviewVars, sales, providerVars, faults, live, historyVars>>

(***************************************************************************)
(* The payment                                                             *)
(***************************************************************************)

\* The customer pays and the provider reports the invoice's own reference; a
\* provider that reports it under another id leaves reported as it is.
Pay(r) ==
  /\ refOwner[r] # None /\ r \notin received
  /\ reported' = reported \cup {r} /\ received' = received \cup {r}
  /\ UNCHANGED <<status, reviewVars, sales, dealVars, linkOf, refOwner, nextRef, job, faults,
                 live, historyVars>>

\* It drops out of the list of recent payments.
Expire(r) ==
  /\ reported' = reported \ {r}
  /\ UNCHANGED <<status, reviewVars, sales, dealVars, linkOf, refOwner, nextRef, received, job,
                 faults, live, historyVars>>

\* A wrong version: any pending deal will do.
check_payments_any(w, d) ==
  /\ deal[d].status = "pending" /\ reported # {}
  /\ Begins(w, [Idle EXCEPT !.at = "book", !.lead = deal[d].lead, !.deal = d])
  /\ UNCHANGED <<status, reviewVars, sales, dealVars, providerVars, faults, live, historyVars>>

\* SELECT ... WHERE wise_reference = %s AND status = 'pending'
check_payments(w, d) ==
  /\ deal[d].status = "pending" /\ deal[d].ref \in reported
  /\ Begins(w, [Idle EXCEPT !.at = "book", !.lead = deal[d].lead, !.deal = d])
  /\ UNCHANGED <<status, reviewVars, sales, dealVars, providerVars, faults, live, historyVars>>

BookPayment(w) ==
  /\ job[w].at = "book"
  /\ deal' = [deal EXCEPT ![job[w].deal].status = "paid"]
  /\ Moves(w, "paid", "idle")
  /\ early' = IF status[job[w].lead] = "invoiced" THEN early ELSE early \cup {job[w].lead}
  /\ UNCHANGED <<status, reviewVars, sales, nextDeal, providerVars, faults, live,
                 dropped, contended, overwritten>>

(***************************************************************************)
(* Faults                                                                  *)
(***************************************************************************)

\* The lead was moved to a status that only this invocation would leave.
MovedOn(w) == \/ job[w].at \in {"propose", "offer", "build"}
              \/ job[w].target \in {"proposal_sent", "deployed", "paid"}

\* A statement or an outside call raises, or the process dies.
Interrupt(w) ==
  /\ job[w] # Idle
  /\ faults < MaxFault
  /\ faults' = faults + 1
  /\ Stops(w)
  /\ dropped' = IF MovedOn(w) THEN dropped \cup {job[w].lead} ELSE dropped
  /\ UNCHANGED <<status, reviewVars, sales, dealVars, providerVars, live,
                 contended, early, overwritten>>

Picks(w) ==
  \/ \E l \in Lead : \/ process_interested_leads(w, l) \/ mark_sale_closed(w, l)
                     \/ build_sites(w, l) \/ send_invoices(w, l)
  \/ \E i \in Item : approve_review(w, i)
  \/ \E d \in Deal : check_payments(w, d)

Works(w) ==
  \/ CheckTransition(w) \/ Refused(w) \/ WriteTransition(w)
  \/ DemoAccepted(w) \/ DemoBlocked(w) \/ Propose(w) \/ OfferSent(w) \/ OfferFailed(w)
  \/ MarkApproved(w) \/ Tally(w) \/ SiteBuilt(w) \/ SiteFailed(w)
  \/ FindDeal(w) \/ CreateStripe(w) \/ CreateWise(w) \/ InsertDeal(w) \/ BookPayment(w)

Next ==
  \/ \E w \in Worker : Picks(w) \/ Works(w) \/ Interrupt(w)
  \/ \E i \in Item : reject_review(i)
  \/ \E r \in Ref : Pay(r) \/ Expire(r)

Spec == Init /\ [][Next]_vars

(***************************************************************************)
(* Properties                                                              *)
(***************************************************************************)

Control == Points \cup {"none"}

TypeOK ==
  /\ status \in [Lead -> LeadStatus]
  /\ item \in [Item -> [lead : Lead \cup {None},
                        status : {"absent", "pending_review", "approved", "rejected"}]]
  /\ nextItem \in 1 .. MaxItem + 1
  /\ sales \in 0 .. MaxSale
  /\ deal \in [Deal -> [lead : Lead \cup {None}, ref : 0 .. MaxRef,
                        status : {"absent", "pending", "paid"}]]
  /\ nextDeal \in 1 .. MaxDeal + 1
  /\ linkOf \in [Lead -> 0 .. MaxRef] /\ refOwner \in [Ref -> Lead \cup {None}]
  /\ nextRef \in 1 .. MaxRef + 1
  /\ reported \subseteq received /\ received \subseteq Ref
  /\ job \in [Worker -> [at : Points, lead : Lead \cup {None}, item : 0 .. MaxItem,
                         deal : 0 .. MaxDeal, ref : 0 .. MaxRef, ask : BOOLEAN,
                         target : LeadStatus \cup {"none"}, read : LeadStatus \cup {"none"},
                         then : Control]]
  /\ faults \in 0 .. MaxFault
  /\ live \subseteq Lead /\ dropped \subseteq Lead /\ contended \subseteq Lead
  /\ early \subseteq Lead /\ overwritten \subseteq Lead
  /\ \A w \in Worker : job[w].at = "idle" <=> job[w] = Idle

At(l, points) == \E w \in Worker : job[w].lead = l /\ job[w].at \in points
Toward(l, target) == \E w \in Worker : job[w].lead = l /\ job[w].target = target

\* A lead rests only in a status that a stage selects, or where the operator or
\* the customer has the next move, or somebody is at work on it, or the stage
\* that moved it on failed afterwards (close_deal.py:69, build_site.py:27,
\* invoice.py:125), or a payment or a transition overtook another one.
NoLeadForgotten ==
  \A l \in Lead \ (dropped \cup overwritten) :
    /\ status[l] = "demo_built" =>
         HasItem(l) \/ At(l, {"propose", "offer"}) \/ Toward(l, "proposal_sent")
    /\ status[l] = "building" => At(l, {"build"}) \/ Toward(l, "deployed")
    /\ status[l] = "invoiced" /\ l \notin early =>
         HasPending(l) \/ Toward(l, "paid")

\* A lead is billed once, unless two invocations invoiced it at the same time,
\* its payment was booked before it was invoiced, or a late transition took it
\* back (invoice.py:52-89).
OneDealPerLead ==
  \A d, e \in Deal :
    d # e /\ deal[d].lead \in Lead /\ deal[d].lead = deal[e].lead
      => deal[d].lead \in contended \cup early \cup overwritten

\* Below the threshold no proposal leaves without the operator, although the
\* counter is read long before the proposal is sent (close_deal.py:51).
ProposalsAreReviewed ==
  \A w \in Worker : job[w].at = "offer" => sales >= SalesThreshold

\* A status changes along the table, except that a late writer may leave it
\* (transition_lead reads the status and writes it in two statements): no stage
\* is skipped on the way to a paid deal.
MovesFollowTable ==
  [][\A l \in Lead : status'[l] # status[l] =>
       status'[l] \in TRANSITIONS[status[l]] \/ l \in overwritten']_vars

\* The rows of deals are a ledger.
Ledger == INSTANCE SaleLedger WITH
  Customer <- Lead, Bill <- Deal, Reference <- Ref, Nobody <- None, NoReference <- 0,
  delivered <- live,
  owedBy <- [d \in Deal |-> deal[d].lead],
  under <- [d \in Deal |-> deal[d].ref],
  received <- received,
  paid <- {d \in Deal : deal[d].status = "paid"}

\* The pipeline implements the ledger: only leads whose site was deployed are
\* billed, references are not mixed up, and a deal is paid for good by a payment
\* under its own reference.
ImplementsLedger == Ledger!Spec

=============================================================================
