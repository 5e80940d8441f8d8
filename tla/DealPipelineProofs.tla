------------------------- MODULE DealPipelineProofs -------------------------
(***************************************************************************)
(* Proofs about DealPipeline, for any leads, invocations and providers,    *)
(* any sales threshold and any number of interruptions.                    *)
(***************************************************************************)
EXTENDS DealPipeline, TLAPS

JobRecord ==
  [at : Points, lead : Lead \cup {None}, item : 0 .. MaxItem, deal : 0 .. MaxDeal,
   ref : 0 .. MaxRef, ask : BOOLEAN, target : LeadStatus \cup {"none"},
   read : LeadStatus \cup {"none"}, then : Control]

\* Where each stage goes on once transition_lead has returned.
Continuations ==
  {<<"demo_built", "propose">>, <<"proposal_sent", "idle">>, <<"proposal_sent", "approved">>,
   <<"closed", "tally">>, <<"building", "build">>, <<"deployed", "idle">>,
   <<"invoiced", "idle">>, <<"paid", "idle">>}

(***************************************************************************)
(* The inductive invariant                                                 *)
(***************************************************************************)

\* What an invocation knows about the rows it has in hand.
JobOK(j) ==
  /\ j # Idle => j.lead \in Lead
  /\ j.at \in {"check", "write"} <=> j.target # "none"
  /\ j.target = "none" => j.then = "none" /\ j.read = "none"
  /\ j.target # "none" => <<j.target, j.then>> \in Continuations
  /\ j.at = "write" => j.read \in LeadStatus /\ j.target \in TRANSITIONS[j.read]
  /\ j.at = "approved" \/ j.then = "approved" => j.item \in Item /\ item[j.item] # NoItem
  /\ j.at \in {"lookup", "create", "insert"} => j.lead \in live
  /\ j.at = "insert" => j.ref \in Ref /\ refOwner[j.ref] = j.lead
  /\ j.at = "book" => /\ j.deal \in Deal /\ deal[j.deal].lead = j.lead
                      /\ deal[j.deal].ref \in received
  /\ ~j.ask /\ (j.at \in {"demo", "propose", "offer"} \/ j.then = "propose")
       => sales >= SalesThreshold
  /\ j.at = "offer" => ~j.ask

Jobs == \A w \in Worker : JobOK(job[w])

\* Rows are filled in order and carry the reference issued for their lead.
Rows ==
  /\ \A i \in Item : IF i < nextItem THEN item[i].lead \in Lead ELSE item[i] = NoItem
  /\ \A d \in Deal : IF d < nextDeal
                     THEN /\ deal[d].lead \in Lead /\ deal[d].ref \in Ref
                          /\ refOwner[deal[d].ref] = deal[d].lead
                          /\ deal[d].status # "absent"
                     ELSE deal[d] = NoDeal
  /\ \A r \in Ref : r >= nextRef => refOwner[r] = None
  /\ \A l \in Lead : linkOf[l] # 0 => refOwner[linkOf[l]] = l
  /\ \A l \in Lead : status[l] = "deployed" => l \in live

\* Who may write a lead's second deal is stopped before: one invocation at a
\* time bills it, while it is deployed, and finds the deal that is there.
Billed(l) ==
  /\ \A d, e \in Deal : deal[d].lead = l /\ deal[e].lead = l => d = e
  /\ \A v, w \in Worker : Bills(v, l) /\ Bills(w, l) => v = w
  /\ \A w \in Worker : job[w].lead = l /\ job[w].at \in {"lookup", "create", "insert"}
                         => status[l] = "deployed"
  /\ \A w \in Worker : job[w].lead = l /\ job[w].at \in {"create", "insert"}
                         => \A d \in Deal : deal[d].lead # l
  /\ \A d \in Deal : deal[d].lead = l /\ deal[d].status = "paid"
                       => status[l] \in {"invoiced", "paid"}

Billing == \A l \in Lead \ (contended \cup early \cup overwritten) : Billed(l)

\* An invoice that is under way has its deal, as long as the lead is not
\* invoiced.
Owing ==
  \A l \in Lead \ (early \cup overwritten) :
    Toward(l, "invoiced") /\ status[l] \notin {"invoiced", "paid"} => HasPending(l)

IInv == TypeOK /\ Rows /\ Jobs /\ Billing /\ Owing /\ NoLeadForgotten

(***************************************************************************)
(* The table                                                               *)
(***************************************************************************)

\* The transitions this part of the pipeline relies on.
LEMMA Table ==
  /\ \A s \in LeadStatus : TRANSITIONS[s] \subseteq LeadStatus
  /\ \A s \in LeadStatus :
       /\ "demo_built" \in TRANSITIONS[s] => s = "interested"
       /\ "building" \in TRANSITIONS[s] => s = "closed"
       /\ "deployed" \in TRANSITIONS[s] => s = "building"
       /\ "invoiced" \in TRANSITIONS[s] => s = "deployed"
       /\ "paid" \in TRANSITIONS[s] => s = "invoiced"
  /\ "proposal_sent" \in TRANSITIONS["demo_built"] /\ TRANSITIONS["building"] = {"deployed"}
  /\ TRANSITIONS["deployed"] = {"invoiced"} /\ TRANSITIONS["invoiced"] = {"paid"}
  /\ TRANSITIONS["paid"] = {}
  BY DEF TRANSITIONS, LeadStatus

(***************************************************************************)
(* What every step keeps of the rows                                       *)
(***************************************************************************)

\* Nothing that an invocation has read goes away.
Grows ==
  /\ live \subseteq live' /\ received \subseteq received' /\ sales' \in {sales, sales + 1}
  /\ \A r \in Ref : refOwner[r] # None => refOwner'[r] = refOwner[r]
  /\ \A d \in Deal : deal[d] # NoDeal => deal'[d].lead = deal[d].lead /\ deal'[d].ref = deal[d].ref
  /\ \A i \in Item : item[i] # NoItem => item'[i] # NoItem /\ item'[i].lead = item[i].lead

\* What one invocation knows stays true while others act.
LEMMA OthersKeep ==
  ASSUME Rows, Grows, TypeOK, NEW j \in JobRecord, JobOK(j)
  PROVE  JobOK(j)'
<1>1. j.at \notin {"idle"} => j.lead \in Lead /\ j.lead # None
  BY DealAssumption DEF JobOK, Idle
<1>2. j.at = "insert" => refOwner'[j.ref] = j.lead
  BY <1>1 DEF JobOK, Grows
<1>3. j.at = "book" => deal'[j.deal].lead = j.lead /\ deal'[j.deal].ref \in received'
  BY <1>1 DEF JobOK, Grows, NoDeal
<1>4. sales >= SalesThreshold => sales' >= SalesThreshold
  BY DealAssumption DEF Grows, TypeOK
<1> QED
  BY <1>2, <1>3, <1>4 DEF JobOK, Grows

(***************************************************************************)
(* The steps                                                               *)
(***************************************************************************)

WorkerActs(w) == Picks(w) \/ Works(w) \/ Interrupt(w)

\* No step takes back what an invocation may have read.
LEMMA GrowStep == TypeOK /\ Rows /\ Jobs /\ [Next]_vars => Grows
<1> SUFFICES ASSUME TypeOK, Rows, Jobs, [Next]_vars PROVE Grows
  OBVIOUS
<1> USE DealAssumption DEF Grows, reviewVars, dealVars, providerVars
<1>s. sales \in Nat /\ nextRef \in Nat /\ nextDeal \in Nat /\ nextItem \in Nat
  BY DEF TypeOK
<1>1. ASSUME NEW w \in Worker, Picks(w) PROVE Grows
  BY <1>s, <1>1 DEF Picks, process_interested_leads, mark_sale_closed, build_sites,
     send_invoices, approve_review, check_payments
<1>2. ASSUME NEW w \in Worker, Works(w) PROVE Grows
  <2>1. CASE \/ CheckTransition(w) \/ Refused(w) \/ WriteTransition(w)
             \/ DemoAccepted(w) \/ DemoBlocked(w) \/ OfferSent(w) \/ OfferFailed(w)
             \/ SiteBuilt(w) \/ SiteFailed(w) \/ FindDeal(w)
    BY <1>s, <2>1 DEF CheckTransition, Refused, WriteTransition, DemoAccepted, DemoBlocked,
       OfferSent, OfferFailed, SiteBuilt, SiteFailed, FindDeal
  <2>2. CASE Propose(w)
    <3>1. CASE item' = item
      BY <1>s, <2>2, <3>1 DEF Propose
    <3>2. CASE /\ nextItem <= MaxItem
               /\ item' = [item EXCEPT ![nextItem] =
                            [lead |-> job[w].lead, status |-> "pending_review"]]
      <4>1. item[nextItem] = NoItem
        BY <1>s, <2>2, <3>2 DEF Rows, TypeOK, Item
      <4>2. \A i \in Item : item[i] # NoItem => item'[i] = item[i]
        BY <3>2, <4>1 DEF TypeOK
      <4> QED
        BY <1>s, <2>2, <4>2 DEF Propose
    <3> QED
      BY <2>2, <3>1, <3>2 DEF Propose
  <2>3. CASE MarkApproved(w)
    <3>1. \A i \in Item : item[i] # NoItem => item'[i] # NoItem /\ item'[i].lead = item[i].lead
      BY <2>3 DEF MarkApproved, NoItem, TypeOK
    <3> QED
      BY <1>s, <2>3, <3>1 DEF MarkApproved
  <2>4. CASE Tally(w)
    BY <1>s, <2>4 DEF Tally
  <2>5. CASE CreateStripe(w) \/ CreateWise(w)
    <3>1. \A r \in Ref : refOwner[r] # None => refOwner'[r] = refOwner[r]
      BY <1>s, <2>5 DEF CreateStripe, CreateWise, FreshRef, Rows, TypeOK
    <3> QED
      BY <1>s, <2>5, <3>1 DEF CreateStripe, CreateWise
  <2>6. CASE InsertDeal(w)
    <3>1. \A d \in Deal : deal[d] # NoDeal => deal'[d].lead = deal[d].lead /\ deal'[d].ref = deal[d].ref
      BY <1>s, <2>6 DEF InsertDeal, Rows, TypeOK
    <3> QED
      BY <1>s, <2>6, <3>1 DEF InsertDeal
  <2>7. CASE BookPayment(w)
    <3>1. \A d \in Deal : deal'[d].lead = deal[d].lead /\ deal'[d].ref = deal[d].ref
      BY <2>7 DEF BookPayment, TypeOK
    <3> QED
      BY <1>s, <2>7, <3>1 DEF BookPayment
  <2> QED
    BY <1>2, <2>1, <2>2, <2>3, <2>4, <2>5, <2>6, <2>7 DEF Works
<1>3. ASSUME NEW w \in Worker, Interrupt(w) PROVE Grows
  BY <1>s, <1>3 DEF Interrupt
<1>4. ASSUME NEW i \in Item, reject_review(i) PROVE Grows
  <2>1. \A k \in Item : item[k] # NoItem => item'[k] # NoItem /\ item'[k].lead = item[k].lead
    BY <1>4 DEF reject_review, NoItem, TypeOK
  <2> QED
    BY <1>s, <1>4, <2>1 DEF reject_review
<1>5. ASSUME NEW r \in Ref, Pay(r) \/ Expire(r) PROVE Grows
  BY <1>s, <1>5 DEF Pay, Expire
<1>6. CASE UNCHANGED vars
  BY <1>s, <1>6 DEF vars
<1> QED
  BY <1>1, <1>2, <1>3, <1>4, <1>5, <1>6 DEF Next

\* An invocation that has nothing in hand.
LEMMA IdleFacts ==
  /\ Idle \in JobRecord
  /\ Idle.at = "idle" /\ Idle.lead = None /\ Idle.ask = FALSE
  /\ Idle.target = "none" /\ Idle.read = "none" /\ Idle.then = "none"
<1>1. Idle \in JobRecord
  BY DealAssumption DEF JobRecord, Points, Control, Idle
<1> QED
  BY <1>1 DEF Idle

\* w has made a step and knows what it should.
Advanced(w) ==
  /\ job' \in [Worker -> JobRecord]
  /\ \A v \in Worker \ {w} : job'[v] = job[v]
  /\ JobOK(job[w])'
  /\ job'[w].at = "idle" <=> job'[w] = Idle

\* One that puts down what it had in hand knows nothing.
LEMMA Rests ==
  ASSUME TypeOK, NEW w \in Worker, job' = [job EXCEPT ![w] = Idle]
  PROVE  Advanced(w)
<1>1. JobOK(Idle)'
  BY IdleFacts DEF JobOK
<1>2. job \in [Worker -> JobRecord]
  BY DEF TypeOK, JobRecord
<1> QED
  BY <1>1, <1>2, IdleFacts DEF Advanced, JobOK

\* One that takes something in hand knows what it has read.
LEMMA Advances ==
  ASSUME TypeOK, NEW w \in Worker, NEW j \in JobRecord, job' = [job EXCEPT ![w] = j],
         JobOK(j)', j.at # "idle"
  PROVE  Advanced(w)
<1>1. job \in [Worker -> JobRecord]
  BY DEF TypeOK, JobRecord
<1> QED
  BY <1>1, IdleFacts DEF Advanced, JobOK

\* A test can be put into a field.
LEMMA Asked == \E b \in BOOLEAN : b = (sales < SalesThreshold)
<1>1. CASE sales < SalesThreshold
  <2>1. TRUE = (sales < SalesThreshold)
    BY <1>1
  <2> QED
    BY <2>1
<1>2. CASE ~(sales < SalesThreshold)
  <2>1. FALSE = (sales < SalesThreshold)
    BY <1>2
  <2> QED
    BY <2>1
<1> QED
  BY <1>1, <1>2

\* An invocation that picks up a lead, an item or a deal.
LEMMA PickStep ==
  ASSUME TypeOK, Rows, Grows, NEW w \in Worker, Picks(w)
  PROVE  Advanced(w)
<1> USE DEF JobRecord, Points, Begins
<1>2. ASSUME NEW l \in Lead, process_interested_leads(w, l) PROVE Advanced(w)
  <2>b. PICK b \in BOOLEAN : b = (sales < SalesThreshold)
    BY Asked
  <2>1. PICK j \in JobRecord : j = [Idle EXCEPT !.at = "demo", !.lead = l, !.ask = b]
    BY IdleFacts
  <2>2. job' = [job EXCEPT ![w] = j] /\ sales' = sales
    BY <1>2, <2>b, <2>1 DEF process_interested_leads
  <2>3. ~b => sales' >= SalesThreshold
    <3>1. sales \in Nat /\ SalesThreshold \in Nat
      BY DealAssumption DEF TypeOK
    <3>2. ~b => ~(sales < SalesThreshold)
      BY <2>b
    <3> QED
      BY <2>2, <3>1, <3>2
  <2>4. JobOK(j)' /\ j.at # "idle"
    BY <2>1, <2>3, IdleFacts DEF JobOK
  <2> QED
    BY <2>1, <2>2, <2>4, Advances
<1>3. ASSUME NEW l \in Lead, mark_sale_closed(w, l) PROVE Advanced(w)
  <2>1. PICK j \in JobRecord : j = [Idle EXCEPT !.at = "check", !.lead = l,
                                      !.target = "closed", !.then = "tally"]
    BY IdleFacts DEF LeadStatus, Control
  <2>2. job' = [job EXCEPT ![w] = j]
    BY <1>3, <2>1 DEF mark_sale_closed
  <2>3. JobOK(j)' /\ j.at # "idle"
    BY <2>1, IdleFacts DEF JobOK, Continuations
  <2> QED
    BY <2>1, <2>2, <2>3, Advances
<1>4. ASSUME NEW l \in Lead, build_sites(w, l) PROVE Advanced(w)
  <2>1. PICK j \in JobRecord : j = [Idle EXCEPT !.at = "check", !.lead = l,
                                      !.target = "building", !.then = "build"]
    BY IdleFacts DEF LeadStatus, Control
  <2>2. job' = [job EXCEPT ![w] = j]
    BY <1>4, <2>1 DEF build_sites
  <2>3. JobOK(j)' /\ j.at # "idle"
    BY <2>1, IdleFacts DEF JobOK, Continuations
  <2> QED
    BY <2>1, <2>2, <2>3, Advances
<1>5. ASSUME NEW l \in Lead, send_invoices(w, l) PROVE Advanced(w)
  <2>1. PICK j \in JobRecord : j = [Idle EXCEPT !.at = "lookup", !.lead = l]
    BY IdleFacts
  <2>2. job' = [job EXCEPT ![w] = j] /\ l \in live'
    BY <1>5, <2>1 DEF send_invoices, Rows
  <2>3. JobOK(j)' /\ j.at # "idle"
    BY <2>1, <2>2, IdleFacts DEF JobOK
  <2> QED
    BY <2>1, <2>2, <2>3, Advances
<1>6. ASSUME NEW i \in Item, approve_review(w, i) PROVE Advanced(w)
  <2>1. /\ item[i].lead \in Lead /\ item'[i] # NoItem
        /\ job' = [job EXCEPT ![w] = [Idle EXCEPT !.at = "check", !.lead = item[i].lead,
                    !.item = i, !.target = "proposal_sent", !.then = "approved"]]
    BY <1>6 DEF approve_review, Rows, Grows
  <2>2. PICK l \in Lead : l = item[i].lead
    BY <2>1
  <2>3. i \in 0 .. MaxItem
    BY DealAssumption DEF Item
  <2>4. PICK j \in JobRecord : j = [Idle EXCEPT !.at = "check", !.lead = l, !.item = i,
                                      !.target = "proposal_sent", !.then = "approved"]
    BY <2>3, IdleFacts DEF LeadStatus, Control
  <2>5. JobOK(j)' /\ j.at # "idle"
    BY <2>1, <2>4, IdleFacts DEF JobOK, Continuations
  <2> QED
    BY <2>1, <2>2, <2>4, <2>5, Advances
<1>7. ASSUME NEW d \in Deal, check_payments(w, d) PROVE Advanced(w)
  <2>1. /\ deal[d].lead \in Lead /\ deal'[d].lead = deal[d].lead /\ deal'[d].ref \in received'
        /\ job' = [job EXCEPT ![w] = [Idle EXCEPT !.at = "book", !.lead = deal[d].lead, !.deal = d]]
    BY <1>7 DEF check_payments, Rows, Grows, TypeOK, NoDeal
  <2>2. PICK l \in Lead : l = deal[d].lead
    BY <2>1
  <2>3. d \in 0 .. MaxDeal
    BY DealAssumption DEF Deal
  <2>4. PICK j \in JobRecord : j = [Idle EXCEPT !.at = "book", !.lead = l, !.deal = d]
    BY <2>3, IdleFacts
  <2>5. JobOK(j)' /\ j.at # "idle"
    BY <2>1, <2>2, <2>4, IdleFacts DEF JobOK
  <2> QED
    BY <2>1, <2>2, <2>4, <2>5, Advances
<1> QED
  BY <1>2, <1>3, <1>4, <1>5, <1>6, <1>7 DEF Picks

\* An invocation that goes on with what it has in hand, or drops it.
LEMMA WorkStep ==
  ASSUME TypeOK, Rows, Jobs, Grows, NEW w \in Worker, Works(w) \/ Interrupt(w)
  PROVE  Advanced(w)
<1> USE DEF JobRecord, Points, Goes, Stops, Moves
<1>k. PICK k \in JobRecord : k = job[w]
  BY DEF TypeOK
<1>t. JobOK(k) /\ JobOK(k)' /\ job \in [Worker -> JobRecord]
  BY <1>k, OthersKeep DEF TypeOK, Jobs, JobOK
<1>1. CASE Interrupt(w) \/ DemoBlocked(w) \/ OfferFailed(w) \/ SiteFailed(w)
           \/ MarkApproved(w) \/ Tally(w)
  BY <1>1, Rests DEF Interrupt, DemoBlocked, OfferFailed, SiteFailed, MarkApproved, Tally
\* A call of transition_lead begins.
<1>2. ASSUME NEW target \in LeadStatus, NEW then \in {"idle", "propose"}, k.at \notin {"idle", "check", "write"},
             <<target, then>> \in Continuations,
             job' = [job EXCEPT ![w].at = "check", ![w].target = target, ![w].then = then],
             then = "propose" => k.at = "demo"
      PROVE  Advanced(w)
  <2>1. PICK j \in JobRecord : j = [k EXCEPT !.at = "check", !.target = target, !.then = then]
    BY DEF Control
  <2>2. job' = [job EXCEPT ![w] = j]
    BY <1>k, <1>t, <1>2, <2>1
  <2>3. JobOK(j)' /\ j.at # "idle"
    BY <1>t, <1>2, <2>1, IdleFacts DEF JobOK, Continuations
  <2> QED
    BY <2>1, <2>2, <2>3, Advances
<1>3. CASE DemoAccepted(w) \/ OfferSent(w) \/ SiteBuilt(w) \/ InsertDeal(w) \/ BookPayment(w)
  <2>1. {"demo_built", "proposal_sent", "deployed", "invoiced", "paid"} \subseteq LeadStatus
    BY DEF LeadStatus
  <2>2. CASE DemoAccepted(w)
    BY <1>k, <1>2, <2>1, <2>2 DEF DemoAccepted, Continuations
  <2>3. CASE OfferSent(w) \/ SiteBuilt(w)
    BY <1>k, <1>2, <2>1, <2>3 DEF OfferSent, SiteBuilt, Continuations
  <2>4. CASE InsertDeal(w) \/ BookPayment(w)
    BY <1>k, <1>2, <2>1, <2>4 DEF InsertDeal, BookPayment, Continuations
  <2> QED
    BY <1>3, <2>2, <2>3, <2>4
<1>4. CASE CheckTransition(w)
  <2>1. /\ k.at = "check" /\ k.lead \in Lead /\ status[k.lead] \in LeadStatus
        /\ k.target \in TRANSITIONS[status[k.lead]]
    BY <1>k, <1>t, <1>4, IdleFacts DEF CheckTransition, can_transition, JobOK, TypeOK
  <2>2. PICK s \in LeadStatus : s = status[k.lead]
    BY <2>1
  <2>3. PICK j \in JobRecord : j = [k EXCEPT !.at = "write", !.read = s]
    OBVIOUS
  <2>4. job' = [job EXCEPT ![w] = j]
    BY <1>k, <1>t, <1>4, <2>2, <2>3 DEF CheckTransition
  <2>5. JobOK(j)' /\ j.at # "idle"
    BY <1>t, <2>1, <2>2, <2>3, IdleFacts DEF JobOK
  <2> QED
    BY <2>3, <2>4, <2>5, Advances
<1>5. CASE Refused(w) \/ WriteTransition(w)
  <2>1. k.at \in {"check", "write"} /\ <<k.target, k.then>> \in Continuations /\ k.lead \in Lead
    BY <1>k, <1>t, <1>5, IdleFacts DEF Refused, WriteTransition, JobOK
  <2>2. CASE k.then = "idle"
    BY <1>k, <1>5, <2>2, Rests DEF Refused, WriteTransition, Returns
  <2>3. CASE k.then # "idle"
    <3>1. PICK p \in {"propose", "approved", "tally", "build"} : p = k.then
      BY <2>1, <2>3 DEF Continuations
    <3>2. PICK j \in JobRecord : j = [k EXCEPT !.at = p, !.target = "none", !.read = "none",
                                             !.then = "none"]
      BY DEF Control
    <3>3. job' = [job EXCEPT ![w] = j]
      BY <1>k, <1>t, <1>5, <2>3, <3>1, <3>2 DEF Refused, WriteTransition, Returns
    <3>4. JobOK(j)' /\ j.at # "idle"
      BY <1>t, <2>1, <3>1, <3>2, IdleFacts DEF JobOK
    <3> QED
      BY <3>2, <3>3, <3>4, Advances
  <2> QED
    BY <2>2, <2>3
\* One that goes on to the next statement.
<1>6. ASSUME NEW at \in {"offer", "create"}, job' = [job EXCEPT ![w].at = at],
             /\ at = "offer" => k.at = "propose" /\ ~k.ask
             /\ at = "create" => k.at = "lookup"
      PROVE  Advanced(w)
  <2>1. PICK j \in JobRecord : j = [k EXCEPT !.at = at]
    BY <1>6
  <2>2. job' = [job EXCEPT ![w] = j]
    BY <1>k, <1>t, <1>6, <2>1
  <2>3. JobOK(j)' /\ j.at # "idle"
    BY <1>t, <1>6, <2>1, IdleFacts DEF JobOK
  <2> QED
    BY <2>1, <2>2, <2>3, Advances
<1>7. CASE Propose(w)
  <2>1. CASE job' = [job EXCEPT ![w] = Idle]
    BY <2>1, Rests
  <2>2. CASE ~job[w].ask /\ Goes(w, "offer")
    BY <1>k, <1>6, <1>7, <2>2 DEF Propose
  <2> QED
    BY <1>7, <2>1, <2>2 DEF Propose
<1>8. CASE FindDeal(w)
  <2>1. CASE Moves(w, "invoiced", "idle")
    BY <1>k, <1>2, <1>8, <2>1 DEF FindDeal, Continuations, LeadStatus, Control
  <2>2. CASE Goes(w, "create")
    BY <1>k, <1>6, <1>8, <2>2 DEF FindDeal
  <2> QED
    BY <1>8, <2>1, <2>2 DEF FindDeal
<1>9. ASSUME NEW r \in Ref, k.at = "create", refOwner'[r] = k.lead,
             job' = [job EXCEPT ![w].at = "insert", ![w].ref = r]
      PROVE  Advanced(w)
  <2>1. r \in 0 .. MaxRef
    BY DealAssumption DEF Ref
  <2>2. PICK j \in JobRecord : j = [k EXCEPT !.at = "insert", !.ref = r]
    BY <2>1
  <2>3. job' = [job EXCEPT ![w] = j]
    BY <1>k, <1>t, <1>9, <2>2
  <2>4. JobOK(j)' /\ j.at # "idle"
    BY <1>t, <1>9, <2>2, IdleFacts DEF JobOK
  <2> QED
    BY <2>2, <2>3, <2>4, Advances
<1>10. CASE CreateStripe(w) \/ CreateWise(w)
  <2>1. CASE FreshRef(w)
    <3>1. nextRef \in Ref /\ refOwner'[nextRef] = k.lead
      BY <1>k, <2>1, DealAssumption DEF FreshRef, TypeOK, Ref
    <3>2. job' = [job EXCEPT ![w].at = "insert", ![w].ref = nextRef] /\ k.at = "create"
      BY <1>k, <1>10, <2>1 DEF FreshRef, CreateStripe, CreateWise
    <3>3. PICK r \in Ref : r = nextRef
      BY <3>1
    <3> QED
      BY <1>9, <3>1, <3>2, <3>3
  <2>2. CASE /\ linkOf[k.lead] # 0 /\ k.at = "create" /\ UNCHANGED refOwner
             /\ job' = [job EXCEPT ![w].at = "insert", ![w].ref = linkOf[k.lead]]
    <3>1. k.lead \in Lead
      BY <1>t, <2>2, IdleFacts DEF JobOK
    <3>2. linkOf[k.lead] \in Ref /\ refOwner'[linkOf[k.lead]] = k.lead
      <4>1. refOwner[linkOf[k.lead]] = k.lead /\ linkOf[k.lead] \in 0 .. MaxRef
        BY <2>2, <3>1 DEF Rows, TypeOK
      <4> QED
        BY <2>2, <4>1, DealAssumption DEF Ref
    <3>3. PICK r \in Ref : r = linkOf[k.lead]
      BY <3>2
    <3> QED
      BY <1>9, <2>2, <3>2, <3>3
  <2> QED
    BY <1>k, <1>10, <2>1, <2>2 DEF CreateStripe, CreateWise
<1> QED
  BY <1>1, <1>3, <1>4, <1>5, <1>7, <1>8, <1>10 DEF Works

\* Whoever acts, every invocation knows what it should.
LEMMA JobsStep ==
  ASSUME TypeOK, Rows, Jobs, Grows, [Next]_vars
  PROVE  /\ Jobs' /\ job' \in [Worker -> JobRecord]
         /\ \A w \in Worker : job'[w].at = "idle" <=> job'[w] = Idle
<1> DEFINE Rest(v) == JobOK(job[v])' /\ (job'[v].at = "idle" <=> job'[v] = Idle)
<1>t. job \in [Worker -> JobRecord]
  BY DEF TypeOK, JobRecord
<1>1. ASSUME NEW v \in Worker, job'[v] = job[v] PROVE Rest(v)
  <2>1. PICK k \in JobRecord : k = job[v]
    BY <1>t
  <2>2. JobOK(k)'
    BY <2>1, OthersKeep DEF Jobs, JobOK
  <2> QED
    BY <1>1, <2>1, <2>2 DEF JobOK, TypeOK
<1>2. ASSUME NEW w \in Worker, WorkerActs(w)
      PROVE  job' \in [Worker -> JobRecord] /\ \A v \in Worker : Rest(v)
  <2>1. Advanced(w)
    BY <1>2, PickStep, WorkStep DEF WorkerActs
  <2> QED
    BY <1>1, <2>1 DEF Advanced
<1>3. CASE UNCHANGED job
  BY <1>1, <1>3, <1>t DEF Jobs
<1>4. UNCHANGED job \/ \E w \in Worker : WorkerActs(w)
  BY DEF Next, WorkerActs, reject_review, Pay, Expire, vars
<1> QED
  BY <1>2, <1>3, <1>4 DEF Jobs

\* Every variable keeps its type.
LEMMA TypeStep == TypeOK /\ Rows /\ Jobs /\ [Next]_vars => TypeOK'
<1> SUFFICES ASSUME TypeOK, Rows, Jobs, [Next]_vars PROVE TypeOK'
  OBVIOUS
<1> USE DEF reviewVars, dealVars, providerVars, historyVars
<1>j. /\ job' \in [Worker -> JobRecord]
      /\ \A w \in Worker : job'[w].at = "idle" <=> job'[w] = Idle
  BY GrowStep, JobsStep
<1>b. /\ sales \in 0 .. MaxSale /\ faults \in 0 .. MaxFault /\ MaxSale \in Nat /\ MaxFault \in Nat
      /\ nextItem \in 1 .. MaxItem + 1 /\ MaxItem \in Nat /\ nextDeal \in 1 .. MaxDeal + 1
      /\ MaxDeal \in Nat /\ nextRef \in 1 .. MaxRef + 1 /\ MaxRef \in Nat
  BY DealAssumption DEF TypeOK
<1> DEFINE Leads == /\ status' \in [Lead -> LeadStatus] /\ live' \subseteq Lead
                    /\ dropped' \subseteq Lead /\ contended' \subseteq Lead
                    /\ early' \subseteq Lead /\ overwritten' \subseteq Lead
           Reviews == /\ item' \in [Item -> [lead : Lead \cup {None},
                                  status : {"absent", "pending_review", "approved", "rejected"}]]
                      /\ nextItem' \in 1 .. MaxItem + 1
           Counts == sales' \in 0 .. MaxSale /\ faults' \in 0 .. MaxFault
           Deals == /\ deal' \in [Deal -> [lead : Lead \cup {None}, ref : 0 .. MaxRef,
                                          status : {"absent", "pending", "paid"}]]
                    /\ nextDeal' \in 1 .. MaxDeal + 1
           Refs == /\ linkOf' \in [Lead -> 0 .. MaxRef] /\ refOwner' \in [Ref -> Lead \cup {None}]
                   /\ nextRef' \in 1 .. MaxRef + 1
                   /\ reported' \subseteq received' /\ received' \subseteq Ref
<1>k. ASSUME NEW w \in Worker, job[w].at # "idle" PROVE job[w].lead \in Lead /\ JobOK(job[w])
  BY <1>k, IdleFacts DEF Jobs, JobOK
<1>1. Leads
  <2>1. ASSUME NEW w \in Worker, Picks(w) PROVE Leads
    BY <2>1 DEF Picks, process_interested_leads, mark_sale_closed, build_sites,
       send_invoices, approve_review, check_payments, TypeOK
  <2>2. ASSUME NEW w \in Worker, Works(w) PROVE Leads
    <3>1. CASE WriteTransition(w)
      <4>1. job[w].lead \in Lead /\ JobOK(job[w]) /\ job[w] \in JobRecord
        BY <1>k, <3>1 DEF WriteTransition, TypeOK, JobRecord
      <4>2. job[w].target \in LeadStatus
        BY <3>1, <4>1 DEF WriteTransition, JobOK, Continuations, LeadStatus
      <4> QED
        BY <3>1, <4>1, <4>2 DEF WriteTransition, TypeOK
    <3>2. CASE OfferFailed(w) \/ SiteFailed(w) \/ BookPayment(w)
      BY <1>k, <3>2 DEF OfferFailed, SiteFailed, BookPayment, TypeOK
    <3>3. CASE UNCHANGED <<status, live, dropped, contended, early, overwritten>>
      BY <3>3 DEF TypeOK
    <3> QED
      BY <2>2, <3>1, <3>2, <3>3 DEF Works, CheckTransition, Refused, DemoAccepted, DemoBlocked,
         Propose, OfferSent, MarkApproved, Tally, SiteBuilt, FindDeal, CreateStripe, CreateWise,
         InsertDeal
  <2>3. ASSUME NEW w \in Worker, Interrupt(w) PROVE Leads
    <3>1. job[w].lead \in Lead
      BY <2>3, <1>k DEF Interrupt, TypeOK
    <3> QED
      BY <2>3, <3>1 DEF Interrupt, TypeOK
  <2>4. CASE UNCHANGED <<status, live, dropped, contended, early, overwritten>>
    BY <2>4 DEF TypeOK
  <2> QED
    BY <2>1, <2>2, <2>3, <2>4 DEF Next, reject_review, Pay, Expire, vars
<1>2. Reviews
  <2>1. CASE UNCHANGED <<item, nextItem>>
    BY <2>1 DEF TypeOK
  <2>2. ASSUME NEW w \in Worker, Propose(w) PROVE Reviews
    <3>1. job[w].lead \in Lead
      BY <1>k, <2>2 DEF Propose
    <3>2. CASE /\ nextItem <= MaxItem
               /\ item' = [item EXCEPT ![nextItem] = [lead |-> job[w].lead, status |-> "pending_review"]]
               /\ nextItem' = nextItem + 1
      <4>1. nextItem \in Item /\ nextItem' \in 1 .. MaxItem + 1
        BY <1>b, <3>2 DEF Item
      <4> QED
        BY <3>1, <3>2, <4>1 DEF TypeOK
    <3> QED
      BY <2>1, <2>2, <3>2 DEF Propose
  <2>3. ASSUME NEW w \in Worker, MarkApproved(w) PROVE Reviews
    <3>1. CASE job[w].item \in Item
      BY <2>3, <3>1 DEF MarkApproved, TypeOK
    <3>2. CASE job[w].item \notin Item
      BY <2>3, <3>2 DEF MarkApproved, TypeOK
    <3> QED
      BY <3>1, <3>2
  <2>4. ASSUME NEW i \in Item, reject_review(i) PROVE Reviews
    BY <2>4 DEF reject_review, TypeOK
  <2>5. \/ UNCHANGED <<item, nextItem>> \/ \E w \in Worker : Propose(w) \/ MarkApproved(w)
        \/ \E i \in Item : reject_review(i)
    <3>1. ASSUME NEW w \in Worker, Picks(w) PROVE UNCHANGED <<item, nextItem>>
      BY <3>1 DEF Picks, process_interested_leads, mark_sale_closed, build_sites,
         send_invoices, approve_review, check_payments
    <3>2. ASSUME NEW w \in Worker, Works(w) PROVE UNCHANGED <<item, nextItem>> \/ Propose(w) \/ MarkApproved(w)
      BY <3>2 DEF Works, CheckTransition, Refused, WriteTransition, DemoAccepted, DemoBlocked, OfferSent, OfferFailed, Tally,
         SiteBuilt, SiteFailed, FindDeal, CreateStripe, CreateWise, InsertDeal, BookPayment
    <3>3. ASSUME NEW w \in Worker, Interrupt(w) PROVE UNCHANGED <<item, nextItem>>
      BY <3>3 DEF Interrupt
    <3> QED
      BY <3>1, <3>2, <3>3 DEF Next, vars, Pay, Expire
  <2> QED
    BY <2>1, <2>2, <2>3, <2>4, <2>5
<1>3. Counts
  <2>1. CASE UNCHANGED <<sales, faults>>
    BY <1>b, <2>1
  <2>2. ASSUME NEW w \in Worker, Picks(w) PROVE Counts
    BY <2>1, <2>2 DEF Picks, process_interested_leads, mark_sale_closed, build_sites,
         send_invoices, approve_review, check_payments
  <2>3. ASSUME NEW w \in Worker, Works(w) PROVE Counts
    <3>1. CASE Tally(w) \/ CreateWise(w)
      BY <1>b, <3>1 DEF Tally, CreateWise
    <3> QED
      BY <2>1, <2>3, <3>1 DEF Works, CheckTransition, Refused, WriteTransition, DemoAccepted, DemoBlocked, Propose, OfferSent, OfferFailed,
         MarkApproved, SiteBuilt, SiteFailed, FindDeal, CreateStripe, InsertDeal, BookPayment
  <2>4. ASSUME NEW w \in Worker, Interrupt(w) PROVE Counts
    BY <1>b, <2>4 DEF Interrupt
  <2> QED
    BY <2>1, <2>2, <2>3, <2>4 DEF Next, vars, reject_review, Pay, Expire
<1>4. Deals
  <2>1. CASE UNCHANGED <<deal, nextDeal>>
    BY <2>1 DEF TypeOK
  <2>2. ASSUME NEW w \in Worker, InsertDeal(w) PROVE Deals
    <3>1. job[w].lead \in Lead /\ job[w].ref \in 0 .. MaxRef
      BY <1>k, <2>2 DEF InsertDeal, TypeOK
    <3>2. nextDeal \in Deal /\ nextDeal' \in 1 .. MaxDeal + 1
      BY <1>b, <2>2 DEF InsertDeal, Deal
    <3> QED
      BY <2>2, <3>1, <3>2 DEF InsertDeal, TypeOK
  <2>3. ASSUME NEW w \in Worker, BookPayment(w) PROVE Deals
    <3>1. job[w].deal \in Deal
      BY <1>k, <2>3 DEF BookPayment, JobOK
    <3> QED
      BY <2>3, <3>1 DEF BookPayment, TypeOK
  <2>5. UNCHANGED <<deal, nextDeal>> \/ \E w \in Worker : InsertDeal(w) \/ BookPayment(w)
    <3>1. ASSUME NEW w \in Worker, Picks(w) PROVE UNCHANGED <<deal, nextDeal>>
      BY <3>1 DEF Picks, process_interested_leads, mark_sale_closed, build_sites,
         send_invoices, approve_review, check_payments
    <3>2. ASSUME NEW w \in Worker, Works(w) PROVE UNCHANGED <<deal, nextDeal>> \/ InsertDeal(w) \/ BookPayment(w)
      BY <3>2 DEF Works, CheckTransition, Refused, WriteTransition, DemoAccepted, DemoBlocked, Propose, OfferSent, OfferFailed,
         MarkApproved, Tally, SiteBuilt, SiteFailed, FindDeal, CreateStripe, CreateWise
    <3>3. ASSUME NEW w \in Worker, Interrupt(w) PROVE UNCHANGED <<deal, nextDeal>>
      BY <3>3 DEF Interrupt
    <3> QED
      BY <3>1, <3>2, <3>3 DEF Next, vars, Pay, Expire, reject_review
  <2> QED
    BY <2>1, <2>2, <2>3, <2>5
<1>5. Refs
  <2>1. CASE UNCHANGED <<linkOf, refOwner, nextRef, reported, received>>
    BY <2>1 DEF TypeOK
  <2>2. ASSUME NEW w \in Worker, CreateStripe(w) \/ CreateWise(w) PROVE Refs
    <3>1. job[w].lead \in Lead
      BY <1>k, <2>2 DEF CreateStripe, CreateWise
    <3>2. CASE FreshRef(w)
      <4>1. nextRef \in Ref /\ nextRef \in 0 .. MaxRef /\ nextRef' \in 1 .. MaxRef + 1
        BY <1>b, <3>2 DEF FreshRef, Ref
      <4>2. refOwner' \in [Ref -> Lead \cup {None}]
        BY <3>1, <3>2, <4>1 DEF FreshRef, TypeOK
      <4>3. linkOf' \in [Lead -> 0 .. MaxRef]
        BY <2>2, <3>1, <4>1 DEF CreateStripe, CreateWise, TypeOK
      <4> QED
        BY <2>2, <4>1, <4>2, <4>3 DEF CreateStripe, CreateWise, TypeOK
    <3> QED
      BY <2>1, <2>2, <3>2 DEF CreateStripe, CreateWise
  <2>3. ASSUME NEW r \in Ref, Pay(r) \/ Expire(r) PROVE Refs
    BY <2>3 DEF Pay, Expire, TypeOK
  <2>5. \/ UNCHANGED <<linkOf, refOwner, nextRef, reported, received>>
        \/ \E w \in Worker : CreateStripe(w) \/ CreateWise(w)
        \/ \E r \in Ref : Pay(r) \/ Expire(r)
    <3>1. ASSUME NEW w \in Worker, Picks(w) PROVE UNCHANGED <<linkOf, refOwner, nextRef, reported, received>>
      BY <3>1 DEF Picks, process_interested_leads, mark_sale_closed, build_sites,
         send_invoices, approve_review, check_payments
    <3>2. ASSUME NEW w \in Worker, Works(w) PROVE UNCHANGED <<linkOf, refOwner, nextRef, reported, received>> \/ CreateStripe(w) \/ CreateWise(w)
      BY <3>2 DEF Works, CheckTransition, Refused, WriteTransition, DemoAccepted, DemoBlocked, Propose, OfferSent, OfferFailed,
         MarkApproved, Tally, SiteBuilt, SiteFailed, FindDeal, InsertDeal, BookPayment
    <3>3. ASSUME NEW w \in Worker, Interrupt(w) PROVE UNCHANGED <<linkOf, refOwner, nextRef, reported, received>>
      BY <3>3 DEF Interrupt
    <3> QED
      BY <3>1, <3>2, <3>3 DEF Next, vars, reject_review
  <2> QED
    BY <2>1, <2>2, <2>3, <2>5
<1> QED
  BY <1>j, <1>1, <1>2, <1>3, <1>4, <1>5 DEF TypeOK, JobRecord

(***************************************************************************)
(* Who writes what                                                         *)
(***************************************************************************)

\* The steps that write a lead's status, the rows of deals, and the providers'
\* records.
LEMMA Writers ==
  ASSUME [Next]_vars
  PROVE  /\ UNCHANGED <<status, live, overwritten>> \/ \E w \in Worker : WriteTransition(w)
         /\ \/ UNCHANGED <<deal, nextDeal>>
            \/ \E w \in Worker : InsertDeal(w) \/ BookPayment(w)
         /\ \/ UNCHANGED <<linkOf, refOwner, nextRef>>
            \/ \E w \in Worker : CreateStripe(w) \/ CreateWise(w)
         /\ UNCHANGED received \/ \E r \in Ref : Pay(r)
         /\ \/ UNCHANGED <<item, nextItem>>
            \/ \E w \in Worker : Propose(w) \/ MarkApproved(w)
            \/ \E i \in Item : reject_review(i)
<1> USE DEF reviewVars, dealVars, providerVars, historyVars
<1> DEFINE Others == UNCHANGED <<status, live, overwritten, deal, nextDeal, linkOf, refOwner,
                                 nextRef, received, item, nextItem>>
<1>1. ASSUME NEW w \in Worker, Picks(w) PROVE Others
  BY <1>1 DEF Picks, process_interested_leads, mark_sale_closed, build_sites,
     send_invoices, approve_review, check_payments
<1>2. ASSUME NEW w \in Worker, Interrupt(w) PROVE Others
  BY <1>2 DEF Interrupt
<1>3. ASSUME NEW w \in Worker, Works(w)
      PROVE  \/ Others \/ WriteTransition(w) \/ InsertDeal(w) \/ BookPayment(w)
             \/ CreateStripe(w) \/ CreateWise(w) \/ Propose(w) \/ MarkApproved(w)
  BY <1>3 DEF Works, CheckTransition, Refused, DemoAccepted, DemoBlocked, OfferSent,
     OfferFailed, Tally, SiteBuilt, SiteFailed, FindDeal
<1>4. ASSUME NEW w \in Worker
      PROVE  /\ WriteTransition(w) => UNCHANGED <<deal, nextDeal, linkOf, refOwner, nextRef,
                                                  received, item, nextItem>>
             /\ InsertDeal(w) \/ BookPayment(w)
                  => UNCHANGED <<status, live, overwritten, linkOf, refOwner, nextRef, received,
                                 item, nextItem>>
             /\ CreateStripe(w) \/ CreateWise(w)
                  => UNCHANGED <<status, live, overwritten, deal, nextDeal, received, item, nextItem>>
             /\ Propose(w) \/ MarkApproved(w)
                  => UNCHANGED <<status, live, overwritten, deal, nextDeal, linkOf, refOwner,
                                 nextRef, received>>
  BY DEF WriteTransition, InsertDeal, BookPayment, CreateStripe, CreateWise, Propose, MarkApproved
<1>5. ASSUME NEW r \in Ref, Pay(r) \/ Expire(r)
      PROVE  /\ UNCHANGED <<status, live, overwritten, deal, nextDeal, linkOf, refOwner, nextRef,
                            item, nextItem>>
             /\ UNCHANGED received \/ Pay(r)
  BY <1>5 DEF Pay, Expire
<1>6. ASSUME NEW i \in Item, reject_review(i)
      PROVE  UNCHANGED <<status, live, overwritten, deal, nextDeal, linkOf, refOwner, nextRef, received>>
  BY <1>6 DEF reject_review
<1>7. CASE UNCHANGED vars
  BY <1>7 DEF vars
<1>8. ASSUME NEW w \in Worker, Works(w)
      PROVE  /\ UNCHANGED <<status, live, overwritten>> \/ WriteTransition(w)
             /\ UNCHANGED <<deal, nextDeal>> \/ InsertDeal(w) \/ BookPayment(w)
             /\ UNCHANGED <<linkOf, refOwner, nextRef>> \/ CreateStripe(w) \/ CreateWise(w)
             /\ UNCHANGED received
             /\ UNCHANGED <<item, nextItem>> \/ Propose(w) \/ MarkApproved(w)
  BY <1>3, <1>4, <1>8
<1> QED
  BY <1>1, <1>2, <1>5, <1>6, <1>7, <1>8 DEF Next

\* Rows are filled in order, with the reference of their lead.
LEMMA RowsStep == TypeOK /\ Rows /\ Jobs /\ [Next]_vars => Rows'
<1> SUFFICES ASSUME TypeOK, Rows, Jobs, [Next]_vars PROVE Rows'
  OBVIOUS
<1> USE DEF reviewVars, dealVars, providerVars, historyVars
<1>b. /\ nextItem \in 1 .. MaxItem + 1 /\ MaxItem \in Nat /\ nextDeal \in 1 .. MaxDeal + 1
      /\ MaxDeal \in Nat /\ nextRef \in 1 .. MaxRef + 1 /\ MaxRef \in Nat
  BY DealAssumption DEF TypeOK
<1>k. ASSUME NEW w \in Worker, job[w].at # "idle" PROVE job[w].lead \in Lead /\ JobOK(job[w])
  BY <1>k, IdleFacts DEF Jobs, JobOK
<1>g. Grows
  BY GrowStep
<1>1. \A i \in Item : IF i < nextItem' THEN item'[i].lead \in Lead ELSE item'[i] = NoItem
  <2>1. ASSUME NEW w \in Worker, Propose(w), nextItem' = nextItem + 1, NEW i \in Item
        PROVE  IF i < nextItem' THEN item'[i].lead \in Lead ELSE item'[i] = NoItem
    <3>1. /\ job[w].lead \in Lead /\ nextItem \in Item
          /\ item' = [item EXCEPT ![nextItem] = [lead |-> job[w].lead, status |-> "pending_review"]]
      BY <1>b, <1>k, <2>1 DEF Propose, Item
    <3>2. CASE i = nextItem
      BY <1>b, <2>1, <3>1, <3>2 DEF TypeOK
    <3>3. CASE i # nextItem
      <4>1. item'[i] = item[i] /\ (i < nextItem' <=> i < nextItem)
        BY <1>b, <2>1, <3>1, <3>3 DEF TypeOK, Item
      <4> QED
        BY <4>1 DEF Rows
    <3> QED
      BY <3>2, <3>3
  <2>2. ASSUME NEW k \in Item, item[k] # NoItem, nextItem' = nextItem, NEW s,
               item' = [item EXCEPT ![k].status = s], NEW i \in Item
        PROVE  IF i < nextItem' THEN item'[i].lead \in Lead ELSE item'[i] = NoItem
    <3>1. k < nextItem /\ item'[i].lead = item[i].lead /\ (i # k => item'[i] = item[i])
      BY <2>2 DEF Rows, TypeOK
    <3> QED
      BY <2>2, <3>1 DEF Rows
  <2>3. ASSUME NEW w \in Worker, MarkApproved(w)
        PROVE  job[w].item \in Item /\ item[job[w].item] # NoItem
    BY <1>k, <2>3 DEF MarkApproved, JobOK
  <2>4. CASE UNCHANGED <<item, nextItem>>
    BY <2>4 DEF Rows
  <2>5. ASSUME NEW w \in Worker, MarkApproved(w), NEW i \in Item
        PROVE  IF i < nextItem' THEN item'[i].lead \in Lead ELSE item'[i] = NoItem
    BY <2>2, <2>3, <2>5 DEF MarkApproved
  <2>6. ASSUME NEW k \in Item, reject_review(k), NEW i \in Item
        PROVE  IF i < nextItem' THEN item'[i].lead \in Lead ELSE item'[i] = NoItem
    BY <2>2, <2>6 DEF reject_review
  <2>7. ASSUME NEW w \in Worker, Propose(w)
        PROVE  nextItem' = nextItem + 1 \/ UNCHANGED <<item, nextItem>>
    BY <2>7 DEF Propose
  <2> QED
    BY <2>1, <2>4, <2>5, <2>6, <2>7, Writers
<1>2. \A d \in Deal : IF d < nextDeal'
                      THEN /\ deal'[d].lead \in Lead /\ deal'[d].ref \in Ref
                           /\ refOwner'[deal'[d].ref] = deal'[d].lead
                           /\ deal'[d].status # "absent"
                      ELSE deal'[d] = NoDeal
  <2>1. CASE UNCHANGED <<deal, nextDeal>>
    <3>1. \A d \in Deal : d < nextDeal => refOwner[deal[d].ref] # None /\ deal[d].ref \in Ref
      BY DealAssumption DEF Rows
    <3> QED
      BY <1>g, <2>1, <3>1 DEF Rows, Grows
  <2>2. ASSUME NEW w \in Worker, InsertDeal(w), NEW d \in Deal
        PROVE  IF d < nextDeal'
               THEN /\ deal'[d].lead \in Lead /\ deal'[d].ref \in Ref
                    /\ refOwner'[deal'[d].ref] = deal'[d].lead
                    /\ deal'[d].status # "absent"
               ELSE deal'[d] = NoDeal
    <3>1. job[w].lead \in Lead /\ job[w].ref \in Ref /\ refOwner[job[w].ref] = job[w].lead
      BY <1>k, <2>2 DEF InsertDeal, JobOK
    <3>2. /\ deal' = [deal EXCEPT ![nextDeal] =
                [lead |-> job[w].lead, ref |-> job[w].ref, status |-> "pending"]]
          /\ nextDeal' = nextDeal + 1 /\ refOwner' = refOwner /\ nextDeal \in Deal
      BY <1>b, <2>2 DEF InsertDeal, Deal
    <3>3. CASE d = nextDeal
      BY <1>b, <3>1, <3>2, <3>3 DEF TypeOK
    <3>4. CASE d # nextDeal
      <4>1. deal'[d] = deal[d] /\ (d < nextDeal' <=> d < nextDeal)
        BY <1>b, <3>2, <3>4 DEF Deal, TypeOK
      <4> QED
        BY <3>2, <4>1 DEF Rows
    <3> QED
      BY <3>3, <3>4
  <2>3. ASSUME NEW w \in Worker, BookPayment(w), NEW d \in Deal
        PROVE  IF d < nextDeal'
               THEN /\ deal'[d].lead \in Lead /\ deal'[d].ref \in Ref
                    /\ refOwner'[deal'[d].ref] = deal'[d].lead
                    /\ deal'[d].status # "absent"
               ELSE deal'[d] = NoDeal
    <3>1. job[w].deal \in Deal /\ deal[job[w].deal].lead \in Lead
      BY <1>k, <2>3 DEF BookPayment, JobOK
    <3>2. job[w].deal < nextDeal
      BY <3>1, DealAssumption DEF Rows, NoDeal
    <3>3. /\ deal'[d].lead = deal[d].lead /\ deal'[d].ref = deal[d].ref /\ UNCHANGED <<refOwner, nextDeal>>
          /\ d # job[w].deal => deal'[d] = deal[d]
          /\ d = job[w].deal => deal'[d].status = "paid"
      BY <2>3, <3>1 DEF BookPayment, TypeOK
    <3> QED
      BY <3>2, <3>3 DEF Rows
  <2> QED
    BY <2>1, <2>2, <2>3, Writers
<1>3. /\ \A r \in Ref : r >= nextRef' => refOwner'[r] = None
      /\ \A l \in Lead : linkOf'[l] # 0 => refOwner'[linkOf'[l]] = l
  <2>1. CASE UNCHANGED <<linkOf, refOwner, nextRef>>
    BY <2>1 DEF Rows
  <2>2. ASSUME NEW w \in Worker, CreateStripe(w) \/ CreateWise(w)
        PROVE  /\ \A r \in Ref : r >= nextRef' => refOwner'[r] = None
               /\ \A l \in Lead : linkOf'[l] # 0 => refOwner'[linkOf'[l]] = l
    <3>1. job[w].lead \in Lead
      BY <1>k, <2>2 DEF CreateStripe, CreateWise
    <3>2. CASE FreshRef(w)
      <4>1. /\ nextRef \in Ref /\ refOwner[nextRef] = None /\ nextRef' = nextRef + 1
            /\ refOwner' = [refOwner EXCEPT ![nextRef] = job[w].lead]
            /\ linkOf' = linkOf \/ linkOf' = [linkOf EXCEPT ![job[w].lead] = nextRef]
        BY <1>b, <2>2, <3>2 DEF FreshRef, CreateStripe, CreateWise, Rows, Ref
      <4>2. \A r \in Ref : r >= nextRef' => refOwner'[r] = None
        BY <1>b, <4>1 DEF Rows, Ref, TypeOK
      <4>3. ASSUME NEW l \in Lead, linkOf'[l] # 0 PROVE refOwner'[linkOf'[l]] = l
        <5>1. CASE l = job[w].lead /\ linkOf' = [linkOf EXCEPT ![job[w].lead] = nextRef]
          BY <4>1, <5>1 DEF TypeOK
        <5>2. CASE linkOf'[l] = linkOf[l]
          <6>1. linkOf[l] # nextRef
            BY <4>1, <4>3, <5>2, DealAssumption DEF Rows
          <6>2. linkOf[l] \in Ref
            BY <1>b, <4>3, <5>2 DEF TypeOK, Ref
          <6> QED
            BY <4>1, <4>3, <5>2, <6>1, <6>2 DEF Rows, TypeOK
        <5> QED
          BY <4>1, <5>1, <5>2 DEF TypeOK
      <4> QED
        BY <4>2, <4>3
    <3> QED
      BY <2>1, <2>2, <3>2 DEF CreateStripe, CreateWise
  <2> QED
    BY <2>1, <2>2, Writers
<1>4. \A l \in Lead : status'[l] = "deployed" => l \in live'
  <2>1. CASE UNCHANGED <<status, live>>
    BY <2>1 DEF Rows
  <2>2. ASSUME NEW w \in Worker, WriteTransition(w), NEW l \in Lead, status'[l] = "deployed"
        PROVE  l \in live'
    BY <2>2 DEF WriteTransition, Rows, TypeOK
  <2> QED
    BY <2>1, <2>2, Writers
<1> QED
  BY <1>1, <1>2, <1>3, <1>4 DEF Rows

(***************************************************************************)
(* The ledger                                                              *)
(***************************************************************************)

\* Every step is a step of the ledger, or none.
LEMMA LedgerStep == TypeOK /\ Rows /\ Jobs /\ [Next]_vars => [Ledger!Next]_(Ledger!ledgerVars)
<1> SUFFICES ASSUME TypeOK, Rows, Jobs, [Next]_vars
             PROVE  Ledger!Next \/ UNCHANGED Ledger!ledgerVars
  OBVIOUS
<1> USE DEF reviewVars, dealVars, providerVars, historyVars
<1>b. nextDeal \in 1 .. MaxDeal + 1 /\ MaxDeal \in Nat /\ MaxRef \in Nat
  BY DealAssumption DEF TypeOK
<1>k. ASSUME NEW w \in Worker, job[w].at # "idle" PROVE job[w].lead \in Lead /\ JobOK(job[w])
  BY <1>k, IdleFacts DEF Jobs, JobOK
<1>1. ASSUME NEW w \in Worker, WriteTransition(w)
      PROVE  Ledger!Next \/ UNCHANGED Ledger!ledgerVars
  <2>1. UNCHANGED <<deal, received>> /\ job[w].lead \in Lead
    BY <1>k, <1>1 DEF WriteTransition
  <2>2. CASE job[w].target = "deployed"
    BY <1>1, <2>1, <2>2 DEF WriteTransition, Ledger!Next, Ledger!Deliver
  <2>3. CASE job[w].target # "deployed"
    BY <1>1, <2>1, <2>3 DEF WriteTransition, Ledger!ledgerVars
  <2> QED
    BY <2>2, <2>3
<1>2. ASSUME NEW w \in Worker, InsertDeal(w) PROVE Ledger!Next
  <2>1. /\ job[w].lead \in Lead /\ job[w].lead \in live
        /\ job[w].ref \in Ref /\ refOwner[job[w].ref] = job[w].lead
    BY <1>k, <1>2 DEF InsertDeal, JobOK
  <2>2. nextDeal \in Deal /\ deal[nextDeal] = NoDeal
    BY <1>b, <1>2 DEF InsertDeal, Deal, Rows
  <2>3. \A o \in Deal : deal[o].ref = job[w].ref => deal[o].lead = job[w].lead
    <3>1. NoDeal.ref \notin Ref
      BY <1>b DEF NoDeal, Ref
    <3> QED
      BY <2>1, <3>1 DEF Rows
  <2>4. [d \in Deal |-> deal[d].lead]' =
          [[d \in Deal |-> deal[d].lead] EXCEPT ![nextDeal] = job[w].lead]
    BY <1>2, <2>2 DEF InsertDeal, TypeOK
  <2>5. [d \in Deal |-> deal[d].ref]' =
          [[d \in Deal |-> deal[d].ref] EXCEPT ![nextDeal] = job[w].ref]
    BY <1>2, <2>2 DEF InsertDeal, TypeOK
  <2>6. {d \in Deal : deal[d].status = "paid"}' = {d \in Deal : deal[d].status = "paid"}
    BY <1>2, <2>2 DEF InsertDeal, TypeOK, NoDeal
  <2>7. UNCHANGED <<live, received>>
    BY <1>2 DEF InsertDeal
  <2>8. PICK b \in Deal, c \in Lead, r \in Ref : b = nextDeal /\ c = job[w].lead /\ r = job[w].ref
    BY <2>1, <2>2
  <2>9. Ledger!Write(b, c, r)
    BY <2>1, <2>2, <2>3, <2>4, <2>5, <2>6, <2>7, <2>8 DEF Ledger!Write, NoDeal
  <2> QED
    BY <2>9 DEF Ledger!Next
<1>3. ASSUME NEW w \in Worker, BookPayment(w) PROVE Ledger!Next
  <2>1. /\ job[w].deal \in Deal /\ job[w].lead \in Lead /\ deal[job[w].deal].lead = job[w].lead
        /\ deal[job[w].deal].ref \in received
    BY <1>k, <1>3 DEF BookPayment, JobOK
  <2>2. [d \in Deal |-> deal[d].lead]' = [d \in Deal |-> deal[d].lead]
    BY <1>3, <2>1 DEF BookPayment, TypeOK
  <2>3. [d \in Deal |-> deal[d].ref]' = [d \in Deal |-> deal[d].ref]
    BY <1>3, <2>1 DEF BookPayment, TypeOK
  <2>4. {d \in Deal : deal[d].status = "paid"}' =
          {d \in Deal : deal[d].status = "paid"} \cup {job[w].deal}
    BY <1>3, <2>1 DEF BookPayment, TypeOK
  <2>5. UNCHANGED <<live, received>>
    BY <1>3 DEF BookPayment
  <2>6. PICK b \in Deal : b = job[w].deal
    BY <2>1
  <2>7. Ledger!Settle(b)
    BY <2>1, <2>2, <2>3, <2>4, <2>5, <2>6, DealAssumption DEF Ledger!Settle
  <2> QED
    BY <2>7 DEF Ledger!Next
<1>4. ASSUME NEW r \in Ref, Pay(r) PROVE Ledger!Next
  BY <1>4 DEF Pay, Ledger!Next, Ledger!Receive
<1>5. CASE UNCHANGED <<live, deal, received>>
  BY <1>5 DEF Ledger!ledgerVars
<1> QED
  BY <1>1, <1>2, <1>3, <1>4, <1>5, Writers

LEMMA Beginning == Init => TypeOK /\ Rows /\ Jobs /\ Ledger!Init
<1> SUFFICES ASSUME Init PROVE TypeOK /\ Rows /\ Jobs /\ Ledger!Init
  OBVIOUS
<1> USE DealAssumption
<1>1. Jobs
  BY IdleFacts DEF Init, Jobs, JobOK
<1>2. Rows
  BY DEF Init, Rows, NoItem, NoDeal, Item, Deal
<1>3. Ledger!Init
  BY DEF Init, Ledger!Init, NoDeal
<1>4. TypeOK
  <2>1. job \in [Worker -> JobRecord] /\ \A w \in Worker : job[w].at = "idle" <=> job[w] = Idle
    BY IdleFacts DEF Init
  <2> QED
    BY <2>1 DEF Init, TypeOK, JobRecord, LeadStatus, NoItem, NoDeal
<1> QED
  BY <1>1, <1>2, <1>3, <1>4

(***************************************************************************)
(* Who is at work on a lead                                                *)
(***************************************************************************)

\* What is noted about a lead stays noted.
LEMMA Noted ==
  ASSUME TypeOK, [Next]_vars
  PROVE  /\ dropped \subseteq dropped' /\ contended \subseteq contended'
         /\ early \subseteq early' /\ overwritten \subseteq overwritten'
<1> USE DEF reviewVars, dealVars, providerVars, historyVars
<1> DEFINE P == /\ dropped \subseteq dropped' /\ contended \subseteq contended'
                /\ early \subseteq early' /\ overwritten \subseteq overwritten'
<1>1. ASSUME NEW w \in Worker, Picks(w) PROVE P
  BY <1>1 DEF Picks, process_interested_leads, mark_sale_closed, build_sites,
     send_invoices, approve_review, check_payments
<1>2. ASSUME NEW w \in Worker, Interrupt(w) PROVE P
  BY <1>2 DEF Interrupt
<1>3. ASSUME NEW w \in Worker, Works(w) PROVE P
  BY <1>3 DEF Works, CheckTransition, Refused, WriteTransition, DemoAccepted, DemoBlocked, Propose,
     OfferSent, OfferFailed, MarkApproved, Tally, SiteBuilt, SiteFailed, FindDeal, CreateStripe,
     CreateWise, InsertDeal, BookPayment
<1> QED
  BY <1>1, <1>2, <1>3 DEF Next, vars, reject_review, Pay, Expire

\* The next step of an invocation, by the point it is at.
LEMMA ByPoint ==
  ASSUME NEW w \in Worker, WorkerActs(w), ~Interrupt(w)
  PROVE  /\ job[w].at = "idle" => Picks(w)
         /\ job[w].at = "check" => CheckTransition(w) \/ Refused(w)
         /\ job[w].at = "write" => WriteTransition(w)
         /\ job[w].at = "propose" => Propose(w)
         /\ job[w].at = "offer" => OfferSent(w) \/ OfferFailed(w)
         /\ job[w].at = "build" => SiteBuilt(w) \/ SiteFailed(w)
         /\ job[w].at = "lookup" => FindDeal(w)
         /\ job[w].at = "create" => CreateStripe(w) \/ CreateWise(w)
         /\ job[w].at = "insert" => InsertDeal(w)
<1>1. Picks(w) => job[w].at = "idle"
  BY IdleFacts DEF Picks, process_interested_leads, mark_sale_closed, build_sites,
     send_invoices, approve_review, check_payments, Begins
<1>2. Works(w) => job[w].at # "idle"
  BY DEF Works, CheckTransition, Refused, WriteTransition, DemoAccepted, DemoBlocked, Propose,
     OfferSent, OfferFailed, MarkApproved, Tally, SiteBuilt, SiteFailed, FindDeal, CreateStripe,
     CreateWise, InsertDeal, BookPayment
<1> QED
  BY <1>1, <1>2 DEF WorkerActs, Works, CheckTransition, Refused, WriteTransition, DemoAccepted,
     DemoBlocked, Propose, OfferSent, OfferFailed, MarkApproved, Tally, SiteBuilt, SiteFailed,
     FindDeal, CreateStripe, CreateWise, InsertDeal, BookPayment

\* A call that the table allows is not refused: it goes on until it has written.
LEMMA Persists ==
  ASSUME TypeOK, Rows, Jobs, NEW w \in Worker, WorkerActs(w), NEW l \in Lead, job[w].lead = l,
         NEW t \in {"proposal_sent", "deployed", "paid"}, job[w].target = t,
         t \in TRANSITIONS[status[l]], l \notin dropped'
  PROVE  status'[l] = t \/ (job'[w].lead = l /\ job'[w].target = t)
<1>k. JobOK(job[w]) /\ job \in [Worker -> JobRecord]
  BY DEF Jobs, TypeOK, JobRecord
<1>1. ~Interrupt(w)
  BY DEF Interrupt, MovedOn
<1>2. job[w].at \in {"check", "write"}
  BY <1>k DEF JobOK
<1>3. CASE CheckTransition(w)
  BY <1>k, <1>3 DEF CheckTransition, JobRecord
<1>4. CASE WriteTransition(w)
  BY <1>4 DEF WriteTransition, TypeOK
<1>5. ~Refused(w)
  BY DEF Refused, can_transition
<1> QED
  BY <1>1, <1>2, <1>3, <1>4, <1>5, ByPoint

\* What follows a transition the stage has made is not left out.
LEMMA GoesOn ==
  ASSUME TypeOK, Rows, Jobs, NEW w \in Worker, WorkerActs(w), NEW l \in Lead, job[w].lead = l,
         l \notin dropped'
  PROVE  /\ job[w].at = "propose" => HasItem(l)' \/ (job'[w].lead = l /\ job'[w].at = "offer")
         /\ job[w].at = "offer" => job'[w].lead = l /\ job'[w].target = "proposal_sent"
         /\ job[w].at = "build" => job'[w].lead = l /\ job'[w].target = "deployed"
<1>k. JobOK(job[w]) /\ job \in [Worker -> JobRecord]
  BY DEF Jobs, TypeOK, JobRecord
<1>1. job[w].at \in {"propose", "offer", "build"} => ~Interrupt(w)
  BY DEF Interrupt, MovedOn
<1>2. ~OfferFailed(w) /\ ~SiteFailed(w)
  BY DEF OfferFailed, SiteFailed
<1>3. CASE Propose(w)
  <2>1. CASE job[w].ask
    <3>1. nextItem \in Item
      BY <1>3, <2>1, DealAssumption DEF Propose, TypeOK, Item
    <3>2. item'[nextItem].lead = l
      BY <1>3, <2>1, <3>1 DEF Propose, TypeOK
    <3> QED
      BY <1>3, <3>1, <3>2 DEF HasItem, Propose
  <2>2. CASE ~job[w].ask
    BY <1>k, <1>3, <2>2 DEF Propose, Goes, JobRecord
  <2> QED
    BY <2>1, <2>2
<1>4. CASE OfferSent(w) \/ SiteBuilt(w)
  BY <1>k, <1>4 DEF OfferSent, SiteBuilt, Moves, JobRecord
<1> QED
  BY <1>1, <1>2, <1>3, <1>4, ByPoint

\* An invocation acts or keeps what it has in hand.
LEMMA Acting ==
  ASSUME TypeOK, Rows, Jobs, [Next]_vars, NEW v \in Worker
  PROVE  WorkerActs(v) \/ job'[v] = job[v]
<1>1. UNCHANGED job \/ \E w \in Worker : WorkerActs(w)
  BY DEF Next, WorkerActs, reject_review, Pay, Expire, vars
<1>2. ASSUME NEW w \in Worker, WorkerActs(w), w # v PROVE job'[v] = job[v]
  <2>1. Advanced(w)
    BY <1>2, GrowStep, PickStep, WorkStep DEF WorkerActs
  <2> QED
    BY <1>2, <2>1 DEF Advanced
<1> QED
  BY <1>1, <1>2

\* Who changes a lead's status that nobody writes over has read it, and the
\* table allows the step.
LEMMA Written ==
  ASSUME TypeOK, Rows, Jobs, [Next]_vars, NEW l \in Lead, status'[l] # status[l]
  PROVE  \E w \in Worker :
           /\ WriteTransition(w) /\ job[w].lead = l /\ status'[l] = job[w].target
           /\ <<job[w].target, job[w].then>> \in Continuations
           /\ l \notin overwritten' => job[w].target \in TRANSITIONS[status[l]]
<1>1. PICK w \in Worker : WriteTransition(w)
  BY Writers
<1>2. job[w].lead = l /\ status'[l] = job[w].target
  BY <1>1 DEF WriteTransition, TypeOK
<1>3. JobOK(job[w]) /\ job[w].at = "write"
  BY <1>1 DEF Jobs, WriteTransition
<1> QED
  BY <1>1, <1>2, <1>3 DEF JobOK, WriteTransition

\* The invariant that nobody is forgotten.
LEMMA ForgottenStep ==
  ASSUME TypeOK, Rows, Jobs, Owing, NoLeadForgotten, [Next]_vars
  PROVE  NoLeadForgotten'
<1> SUFFICES ASSUME NEW l \in Lead, l \notin dropped', l \notin overwritten'
             PROVE  /\ status'[l] = "demo_built" =>
                         \/ HasItem(l)' \/ At(l, {"propose", "offer"})'
                         \/ Toward(l, "proposal_sent")'
                    /\ status'[l] = "building" => At(l, {"build"})' \/ Toward(l, "deployed")'
                    /\ status'[l] = "invoiced" /\ l \notin early' =>
                         HasPending(l)' \/ Toward(l, "paid")'
  BY DEF NoLeadForgotten
<1>g. Grows
  BY GrowStep
<1>n. l \notin dropped /\ l \notin overwritten /\ (l \notin early' => l \notin early)
  BY Noted
<1>1. ASSUME status'[l] = "demo_built"
      PROVE  HasItem(l)' \/ At(l, {"propose", "offer"})' \/ Toward(l, "proposal_sent")'
  <2>1. CASE status[l] = "demo_built"
    <3>1. CASE HasItem(l)
      <4>1. PICK i \in Item : item[i].lead = l
        BY <3>1 DEF HasItem
      <4>2. item[i] # NoItem
        BY <4>1, DealAssumption DEF NoItem
      <4> QED
        BY <1>g, <4>1, <4>2 DEF Grows, HasItem
    <3>2. ASSUME NEW w \in Worker, job[w].lead = l, job[w].at \in {"propose", "offer"}
          PROVE  HasItem(l)' \/ At(l, {"propose", "offer"})' \/ Toward(l, "proposal_sent")'
      BY <3>2, GoesOn, Acting DEF At, Toward
    <3>3. ASSUME NEW w \in Worker, job[w].lead = l, job[w].target = "proposal_sent"
          PROVE  Toward(l, "proposal_sent")'
      BY <1>1, <2>1, <3>3, Persists, Acting, Table DEF Toward
    <3> QED
      BY <1>n, <2>1, <3>1, <3>2, <3>3 DEF NoLeadForgotten, At, Toward
  <2>2. CASE status[l] # "demo_built"
    <3>1. PICK w \in Worker : /\ WriteTransition(w) /\ job[w].lead = l
                              /\ job[w].target = "demo_built" /\ job[w].then = "propose"
      BY <1>1, <2>2, Written DEF Continuations
    <3>2. job'[w].lead = l /\ job'[w].at = "propose"
      BY <3>1 DEF WriteTransition, Returns, TypeOK
    <3> QED
      BY <3>2 DEF At
  <2> QED
    BY <2>1, <2>2
<1>2. ASSUME status'[l] = "building" PROVE At(l, {"build"})' \/ Toward(l, "deployed")'
  <2>1. CASE status[l] = "building"
    <3>1. ASSUME NEW w \in Worker, job[w].lead = l, job[w].at = "build"
          PROVE  At(l, {"build"})' \/ Toward(l, "deployed")'
      BY <3>1, GoesOn, Acting DEF At, Toward
    <3>2. ASSUME NEW w \in Worker, job[w].lead = l, job[w].target = "deployed"
          PROVE  Toward(l, "deployed")'
      BY <1>2, <2>1, <3>2, Persists, Acting, Table DEF Toward
    <3> QED
      BY <1>n, <2>1, <3>1, <3>2 DEF NoLeadForgotten, At, Toward
  <2>2. CASE status[l] # "building"
    <3>1. PICK w \in Worker : /\ WriteTransition(w) /\ job[w].lead = l
                              /\ job[w].target = "building" /\ job[w].then = "build"
      BY <1>2, <2>2, Written DEF Continuations
    <3>2. job'[w].lead = l /\ job'[w].at = "build"
      BY <3>1 DEF WriteTransition, Returns, TypeOK
    <3> QED
      BY <3>2 DEF At
  <2> QED
    BY <2>1, <2>2
<1>3. ASSUME status'[l] = "invoiced", l \notin early' PROVE HasPending(l)' \/ Toward(l, "paid")'
  <2>1. ASSUME NEW w \in Worker, job[w].lead = l, job[w].target = "paid", status[l] = "invoiced"
        PROVE  Toward(l, "paid")'
    BY <1>3, <2>1, Persists, Acting, Table DEF Toward
  <2>2. HasPending(l) \/ \E w \in Worker : /\ job[w].lead = l /\ job[w].target = "paid"
                                           /\ status[l] = "invoiced"
    <3>1. CASE status[l] = "invoiced"
      BY <1>3, <1>n, <3>1 DEF NoLeadForgotten, Toward
    <3>2. CASE status[l] # "invoiced"
      <4>1. PICK w \in Worker : /\ job[w].lead = l /\ job[w].target = "invoiced"
                                /\ "invoiced" \in TRANSITIONS[status[l]]
        <5>1. status'[l] # status[l] /\ l \notin overwritten'
          BY <1>3, <3>2
        <5>2. PICK w \in Worker : /\ WriteTransition(w) /\ job[w].lead = l
                                  /\ status'[l] = job[w].target
                                  /\ l \notin overwritten' => job[w].target \in TRANSITIONS[status[l]]
          BY <5>1, Written
        <5> QED
          BY <1>3, <5>1, <5>2
      <4>2. status[l] = "deployed"
        BY <4>1, Table DEF TypeOK
      <4> QED
        BY <1>3, <1>n, <4>1, <4>2 DEF Owing, Toward
    <3> QED
      BY <3>1, <3>2
  <2>3. ASSUME NEW d \in Deal, deal[d].lead = l, deal[d].status = "pending"
        PROVE  HasPending(l)' \/ Toward(l, "paid")'
    <3>1. CASE UNCHANGED deal
      BY <2>3, <3>1 DEF HasPending
    <3>2. ASSUME NEW w \in Worker, InsertDeal(w) PROVE deal'[d] = deal[d]
      <4>1. d # nextDeal
        BY <2>3, DealAssumption DEF Rows, NoDeal, TypeOK
      <4> QED
        BY <3>2, <4>1 DEF InsertDeal, TypeOK
    <3>3. ASSUME NEW w \in Worker, BookPayment(w), deal'[d] # deal[d]
          PROVE  Toward(l, "paid")'
      <4>1. job[w].deal = d /\ job[w].lead = l
        BY <2>3, <3>3 DEF BookPayment, Jobs, JobOK, TypeOK
      <4>2. job'[w].target = "paid" /\ job'[w].lead = l
        BY <3>3, <4>1 DEF BookPayment, Moves, TypeOK
      <4> QED
        BY <4>2 DEF Toward
    <3> QED
      BY <2>3, <3>1, <3>2, <3>3, Writers DEF HasPending
  <2> QED
    BY <2>1, <2>2, <2>3 DEF HasPending
<1> QED
  BY <1>1, <1>2, <1>3

(***************************************************************************)
(* One deal for a lead                                                     *)
(***************************************************************************)

\* How a row of deals changes: it is inserted, or its payment is booked.
LEMMA DealWritten ==
  ASSUME TypeOK, Rows, Jobs, [Next]_vars, NEW d \in Deal, deal'[d] # deal[d]
  PROVE  \E w \in Worker :
           \/ /\ InsertDeal(w) /\ d = nextDeal /\ job[w].lead \in Lead
              /\ deal'[d].lead = job[w].lead /\ deal'[d].status = "pending"
           \/ /\ BookPayment(w) /\ job[w].deal = d /\ deal[d].lead = job[w].lead
              /\ deal'[d].lead = job[w].lead /\ job[w].lead \in Lead
              /\ status[job[w].lead] = "invoiced" \/ job[w].lead \in early'
              /\ UNCHANGED status
<1>1. ASSUME NEW w \in Worker, InsertDeal(w)
      PROVE  /\ d = nextDeal /\ job[w].lead \in Lead
             /\ deal'[d].lead = job[w].lead /\ deal'[d].status = "pending"
  <2>1. job[w].lead \in Lead
    BY <1>1, IdleFacts DEF InsertDeal, Jobs, JobOK
  <2>2. d = nextDeal
    BY <1>1 DEF InsertDeal, TypeOK
  <2> QED
    BY <1>1, <2>1, <2>2 DEF InsertDeal, TypeOK
<1>2. ASSUME NEW w \in Worker, BookPayment(w)
      PROVE  /\ job[w].deal = d /\ deal[d].lead = job[w].lead
             /\ deal'[d].lead = job[w].lead /\ job[w].lead \in Lead
             /\ status[job[w].lead] = "invoiced" \/ job[w].lead \in early'
             /\ UNCHANGED status
  <2>1. job[w].lead \in Lead /\ deal[job[w].deal].lead = job[w].lead
    BY <1>2, IdleFacts DEF BookPayment, Jobs, JobOK
  <2>2. d = job[w].deal
    BY <1>2 DEF BookPayment, TypeOK
  <2> QED
    BY <1>2, <2>1, <2>2 DEF BookPayment, TypeOK
<1> QED
  BY <1>1, <1>2, Writers

\* How an invocation comes to bill a lead.
LEMMA Reached ==
  ASSUME TypeOK, Rows, Jobs, NEW v \in Worker, WorkerActs(v), NEW l \in Lead, job'[v].lead = l
  PROVE  /\ job'[v].at = "lookup" => send_invoices(v, l)
         /\ job'[v].at = "create" => FindDeal(v) /\ ~HasPending(l) /\ job[v].lead = l
         /\ job'[v].at = "insert" => job[v].at = "create" /\ job[v].lead = l
         /\ job'[v].target = "invoiced" =>
              /\ job[v].lead = l
              /\ job[v].target = "invoiced" \/ (FindDeal(v) /\ HasPending(l)) \/ InsertDeal(v)
<1> DEFINE P == /\ job'[v].at = "lookup" => send_invoices(v, l)
                /\ job'[v].at = "create" => FindDeal(v) /\ ~HasPending(l) /\ job[v].lead = l
                /\ job'[v].at = "insert" => job[v].at = "create" /\ job[v].lead = l
                /\ job'[v].target = "invoiced" =>
                     /\ job[v].lead = l
                     /\ job[v].target = "invoiced" \/ (FindDeal(v) /\ HasPending(l)) \/ InsertDeal(v)
<1>t. job \in [Worker -> JobRecord] /\ JobOK(job[v])
  BY DEF TypeOK, JobRecord, Jobs
<1>i. job'[v] # Idle
  BY IdleFacts, DealAssumption
<1>1. CASE Picks(v)
  <2>0. ASSUME NEW k \in Lead, process_interested_leads(v, k)
        PROVE  job'[v].at = "demo" /\ job'[v].target # "invoiced"
    <3>1. PICK b \in BOOLEAN : b = (sales < SalesThreshold)
      BY Asked
    <3>2. job' = [job EXCEPT ![v] = [Idle EXCEPT !.at = "demo", !.lead = k, !.ask = b]]
      BY <2>0, <3>1 DEF process_interested_leads, Begins
    <3> QED
      BY <1>t, <3>2 DEF Idle
  <2>1. ASSUME NEW k \in Lead, mark_sale_closed(v, k) \/ build_sites(v, k)
        PROVE  job'[v].at = "check" /\ job'[v].target # "invoiced"
    <3>1. CASE mark_sale_closed(v, k)
      BY <1>t, <3>1 DEF mark_sale_closed, Begins, Idle
    <3>2. CASE build_sites(v, k)
      BY <1>t, <3>2 DEF build_sites, Begins, Idle
    <3> QED
      BY <2>1, <3>1, <3>2
  <2>2. ASSUME NEW k \in Lead, send_invoices(v, k)
        PROVE  job'[v].at = "lookup" /\ job'[v].target # "invoiced" /\ k = l
    BY <1>t, <2>2 DEF send_invoices, Begins, Idle, JobRecord
  <2>3. ASSUME NEW i \in Item, approve_review(v, i)
        PROVE  job'[v].at = "check" /\ job'[v].target # "invoiced"
    BY <1>t, <2>3 DEF approve_review, Begins, Idle, JobRecord
  <2>4. ASSUME NEW d \in Deal, check_payments(v, d)
        PROVE  job'[v].at = "book" /\ job'[v].target # "invoiced"
    BY <1>t, <2>4 DEF check_payments, Begins, Idle, JobRecord
  <2> QED
    BY <1>1, <2>0, <2>1, <2>2, <2>3, <2>4 DEF Picks
<1>2. CASE Interrupt(v) \/ DemoBlocked(v) \/ OfferFailed(v) \/ SiteFailed(v)
           \/ MarkApproved(v) \/ Tally(v)
  BY <1>t, <1>i, <1>2 DEF Interrupt, DemoBlocked, OfferFailed, SiteFailed, MarkApproved, Tally, Stops
<1>3. CASE DemoAccepted(v) \/ OfferSent(v) \/ SiteBuilt(v) \/ BookPayment(v)
  BY <1>t, <1>3 DEF DemoAccepted, OfferSent, SiteBuilt, BookPayment, Moves, JobRecord
<1>4. CASE CheckTransition(v)
  BY <1>t, <1>4 DEF CheckTransition, JobRecord
<1>5. CASE Refused(v) \/ WriteTransition(v)
  <2>1. <<job[v].target, job[v].then>> \in Continuations
    BY <1>t, <1>5 DEF Refused, WriteTransition, JobOK
  <2>2. job[v].then # "idle"
    BY <1>t, <1>i, <1>5 DEF Refused, WriteTransition, Returns, Stops
  <2>3. job'[v].at = job[v].then /\ job'[v].target = "none"
    BY <1>t, <1>5, <2>2 DEF Refused, WriteTransition, Returns, JobRecord
  <2> QED
    BY <2>1, <2>2, <2>3 DEF Continuations
<1>6. CASE Propose(v)
  <2>1. job'[v].at = "offer" /\ job'[v].target = job[v].target
    BY <1>t, <1>i, <1>6 DEF Propose, Goes, Stops, JobRecord
  <2> QED
    BY <1>t, <1>6, <2>1 DEF Propose, JobOK
<1>7. CASE FindDeal(v)
  <2>1. job[v].lead = l
    BY <1>t, <1>7 DEF FindDeal, Moves, Goes, JobRecord
  <2>2. CASE HasPending(l)
    BY <1>t, <1>7, <2>1, <2>2 DEF FindDeal, Moves, JobRecord
  <2>3. CASE ~HasPending(l)
    BY <1>t, <1>7, <2>1, <2>3 DEF FindDeal, Goes, JobRecord, JobOK
  <2> QED
    BY <2>2, <2>3
<1>8. CASE CreateStripe(v) \/ CreateWise(v)
  <2>1. /\ job'[v].lead = job[v].lead /\ job'[v].at = "insert" /\ job'[v].target = job[v].target
        /\ job[v].at = "create"
    BY <1>t, <1>8 DEF CreateStripe, CreateWise, FreshRef, JobRecord
  <2> QED
    BY <1>t, <2>1 DEF JobOK
<1>9. CASE InsertDeal(v)
  BY <1>t, <1>9 DEF InsertDeal, Moves, JobRecord
<1> QED
  BY <1>1, <1>2, <1>3, <1>4, <1>5, <1>6, <1>7, <1>8, <1>9 DEF WorkerActs, Works

\* Only an invocation that picks up a deployed lead begins to bill it.
LEMMA Billers ==
  ASSUME TypeOK, Rows, Jobs, [Next]_vars, NEW v \in Worker, NEW l \in Lead, Bills(v, l)'
  PROVE  Bills(v, l) \/ send_invoices(v, l)
<1>1. CASE job'[v] = job[v]
  BY <1>1 DEF Bills
<1>2. CASE WorkerActs(v)
  <2>1. job'[v].lead = l
    BY DEF Bills
  <2> QED
    BY <1>2, <2>1, Reached DEF Bills, FindDeal, InsertDeal
<1> QED
  BY <1>1, <1>2, Acting

\* The invariant of billing.
LEMMA BillingStep ==
  ASSUME TypeOK, Rows, Jobs, Billing, [Next]_vars
  PROVE  Billing'
<1> SUFFICES ASSUME NEW l \in Lead, l \notin contended', l \notin early', l \notin overwritten'
             PROVE  Billed(l)'
  BY DEF Billing
<1>b. Billed(l)
  BY Noted DEF Billing
<1>d. ASSUME NEW d \in Deal, deal'[d].lead = l
      PROVE  deal[d].lead = l \/ \E w \in Worker : InsertDeal(w) /\ job[w].lead = l /\ d = nextDeal
  <2>1. CASE deal'[d] = deal[d]
    BY <1>d, <2>1
  <2>2. CASE deal'[d] # deal[d]
    BY <1>d, <2>2, DealWritten
  <2> QED
    BY <2>1, <2>2
<1>1. ASSUME NEW d \in Deal, NEW e \in Deal, deal'[d].lead = l, deal'[e].lead = l PROVE d = e
  <2>1. ASSUME NEW w \in Worker, InsertDeal(w), job[w].lead = l PROVE \A c \in Deal : deal[c].lead # l
    BY <1>b, <2>1 DEF Billed, InsertDeal
  <2> QED
    BY <1>b, <1>d, <1>1, <2>1 DEF Billed
<1>s. ASSUME NEW v \in Worker, send_invoices(v, l)
      PROVE  /\ UNCHANGED status /\ status[l] = "deployed"
             /\ \A w \in Worker : ~Bills(w, l)
             /\ \A w \in Worker \ {v} : ~Bills(w, l)'
  <2>1. \A w \in Worker : ~Bills(w, l)
    BY <1>s DEF send_invoices
  <2>2. \A w \in Worker \ {v} : job'[w] = job[w]
    BY <1>s DEF send_invoices, Begins, TypeOK
  <2>3. \A w \in Worker \ {v} : ~Bills(w, l)'
    BY <2>1, <2>2 DEF Bills
  <2> QED
    BY <1>s, <2>1, <2>3 DEF send_invoices
<1>2. ASSUME NEW v \in Worker, NEW w \in Worker, Bills(v, l)', Bills(w, l)' PROVE v = w
  <2>1. CASE Bills(v, l) /\ Bills(w, l)
    BY <1>b, <2>1 DEF Billed
  <2>2. CASE send_invoices(v, l) \/ send_invoices(w, l)
    BY <1>s, <1>2, <2>2
  <2> QED
    BY <1>2, <2>1, <2>2, Billers
\* While it is billed, a lead stays deployed.
<1>3. ASSUME NEW w \in Worker, job'[w].lead = l, job'[w].at \in {"lookup", "create", "insert"}
      PROVE  /\ status[l] = "deployed" /\ status'[l] = "deployed"
             /\ send_invoices(w, l) \/ (job[w].lead = l /\ job[w].at \in {"lookup", "create", "insert"})
  <2>1. CASE send_invoices(w, l)
    BY <1>s, <2>1
  <2>2. CASE job[w].lead = l /\ job[w].at \in {"lookup", "create", "insert"}
    <3>1. status[l] = "deployed" /\ Bills(w, l)
      BY <1>b, <2>2 DEF Billed, Bills
    <3>2. CASE status'[l] # status[l]
      <4>1. PICK x \in Worker : /\ WriteTransition(x) /\ job[x].lead = l
                                /\ job[x].target \in TRANSITIONS[status[l]]
        BY <3>2, Written
      <4>2. Bills(x, l)
        BY <3>1, <4>1, Table DEF Bills
      <4>3. x = w
        BY <1>b, <3>1, <4>2 DEF Billed
      <4> QED
        BY <2>2, <4>1, <4>3 DEF WriteTransition
    <3> QED
      BY <2>2, <3>1, <3>2
  <2>3. send_invoices(w, l) \/ (job[w].lead = l /\ job[w].at \in {"lookup", "create", "insert"})
    <3>1. CASE job'[w] = job[w]
      BY <1>3, <3>1
    <3>2. CASE WorkerActs(w)
      BY <1>3, <3>2, Reached DEF FindDeal
    <3> QED
      BY <3>1, <3>2, Acting
  <2> QED
    BY <2>1, <2>2, <2>3
<1>4. ASSUME NEW w \in Worker, job'[w].lead = l, job'[w].at \in {"create", "insert"}, NEW d \in Deal
      PROVE  deal'[d].lead # l
  <2>1. (job[w].lead = l /\ job[w].at \in {"lookup", "create"}) \/ job'[w] = job[w]
    <3>1. CASE WorkerActs(w)
      BY <1>4, <3>1, Reached DEF FindDeal
    <3> QED
      BY <3>1, Acting
  <2>2. deal[d].lead # l
    <3>1. CASE job[w].lead = l /\ job[w].at \in {"create", "insert"}
      BY <1>b, <3>1 DEF Billed
    <3>2. CASE ~(job[w].lead = l /\ job[w].at \in {"create", "insert"})
      <4>1. job'[w] # job[w]
        BY <1>4, <3>2
      <4>2. WorkerActs(w)
        BY <4>1, Acting
      <4>3. ~HasPending(l)
        BY <1>4, <3>2, <4>2, Reached
      <4>4. status[l] = "deployed"
        BY <1>3, <1>4
      <4>5. deal[d].lead = l => deal[d].status \in {"pending", "paid"}
        BY DealAssumption DEF Rows, NoDeal, TypeOK
      <4> QED
        BY <1>b, <4>3, <4>4, <4>5 DEF Billed, HasPending
    <3> QED
      BY <3>1, <3>2
  <2>3. CASE deal'[d].lead = l
    <3>1. PICK x \in Worker : InsertDeal(x) /\ job[x].lead = l
      BY <1>d, <2>2, <2>3
    <3>2. Bills(w, l) /\ Bills(x, l)
      BY <1>4, <2>1, <3>1 DEF Bills, InsertDeal
    <3>3. x = w
      BY <1>b, <3>2 DEF Billed
    <3>4. job'[w].at = "check"
      BY <3>1, <3>3 DEF InsertDeal, Moves, TypeOK
    <3> QED
      BY <1>4, <3>4
  <2> QED
    BY <2>3
<1>5. ASSUME NEW d \in Deal, deal'[d].lead = l, deal'[d].status = "paid"
      PROVE  status'[l] \in {"invoiced", "paid"}
  <2>1. status[l] \in {"invoiced", "paid"}
    <3>1. CASE deal'[d] = deal[d]
      BY <1>b, <1>5, <3>1 DEF Billed
    <3>2. CASE deal'[d] # deal[d]
      <4>1. PICK w \in Worker : /\ deal'[d].lead = job[w].lead
                                /\ status[job[w].lead] = "invoiced" \/ job[w].lead \in early'
        BY <1>5, <3>2, DealWritten
      <4> QED
        BY <1>5, <4>1
    <3> QED
      BY <3>1, <3>2
  <2>2. CASE status'[l] # status[l]
    <3>1. PICK x \in Worker : status'[l] = job[x].target /\ job[x].target \in TRANSITIONS[status[l]]
      BY <2>2, Written
    <3> QED
      BY <2>1, <3>1, Table
  <2> QED
    BY <2>1, <2>2
<1>6. \A w \in Worker : job'[w].lead = l /\ job'[w].at \in {"lookup", "create", "insert"}
                          => status'[l] = "deployed"
  BY <1>3
<1> QED
  BY <1>1, <1>2, <1>4, <1>5, <1>6 DEF Billed

\* The invariant of invoices under way.
LEMMA OwingStep ==
  ASSUME TypeOK, Rows, Jobs, Owing, [Next]_vars
  PROVE  Owing'
<1> SUFFICES ASSUME NEW l \in Lead, l \notin early', l \notin overwritten', NEW w \in Worker,
                    job'[w].lead = l, job'[w].target = "invoiced",
                    status'[l] \notin {"invoiced", "paid"}
             PROVE  HasPending(l)'
  BY DEF Owing, Toward
<1>n. l \notin early /\ l \notin overwritten
  BY Noted
<1>1. status[l] \notin {"invoiced", "paid"}
  <2>1. CASE status'[l] # status[l]
    <3>1. PICK x \in Worker : status'[l] = job[x].target /\ job[x].target \in TRANSITIONS[status[l]]
      BY <2>1, Written
    <3> QED
      BY <3>1, Table
  <2> QED
    BY <2>1
<1>2. HasPending(l) \/ (InsertDeal(w) /\ job[w].lead = l)
  <2>1. CASE job[w].lead = l /\ job[w].target = "invoiced"
    BY <1>n, <1>1, <2>1 DEF Owing, Toward
  <2>2. CASE WorkerActs(w)
    BY <2>1, <2>2, Reached
  <2> QED
    BY <2>1, <2>2, Acting
<1>3. CASE InsertDeal(w) /\ job[w].lead = l
  <2>1. nextDeal \in Deal
    BY <1>3, DealAssumption DEF InsertDeal, TypeOK, Deal
  <2>2. deal'[nextDeal].lead = l /\ deal'[nextDeal].status = "pending"
    BY <1>3, <2>1 DEF InsertDeal, TypeOK
  <2> QED
    BY <2>1, <2>2 DEF HasPending
<1>4. ASSUME NEW d \in Deal, deal[d].lead = l, deal[d].status = "pending" PROVE HasPending(l)'
  <2>1. deal'[d] = deal[d]
    <3>1. CASE deal'[d] # deal[d]
      <4>1. PICK x \in Worker :
              \/ InsertDeal(x) /\ d = nextDeal
              \/ /\ deal[d].lead = job[x].lead
                 /\ status[job[x].lead] = "invoiced" \/ job[x].lead \in early'
        BY <3>1, DealWritten
      <4>2. d # nextDeal
        BY <1>4, DealAssumption DEF Rows, NoDeal, TypeOK
      <4> QED
        BY <1>1, <1>4, <4>1, <4>2
    <3> QED
      BY <3>1
  <2> QED
    BY <1>4, <2>1 DEF HasPending
<1> QED
  BY <1>2, <1>3, <1>4 DEF HasPending

(***************************************************************************)
(* Theorems                                                                *)
(***************************************************************************)

LEMMA Invariance == Spec => []IInv
<1>1. Init => IInv
  <2> SUFFICES ASSUME Init PROVE IInv
    OBVIOUS
  <2>1. Billing /\ Owing /\ NoLeadForgotten
    <3>1. \A w \in Worker : job[w].lead \notin Lead
      BY IdleFacts, DealAssumption DEF Init
    <3>2. \A d \in Deal : deal[d].lead \notin Lead
      BY DealAssumption DEF Init, NoDeal
    <3> QED
      BY <3>1, <3>2 DEF Init, Billing, Billed, Bills, Owing, Toward, NoLeadForgotten
  <2> QED
    BY <2>1, Beginning DEF IInv
<1>2. IInv /\ [Next]_vars => IInv'
  BY GrowStep, TypeStep, RowsStep, JobsStep, BillingStep, OwingStep, ForgottenStep DEF IInv
<1> QED
  BY <1>1, <1>2, PTL DEF Spec

\* Every variable keeps its type, and only an invocation with nothing in hand
\* is idle.
THEOREM TypeCorrect == Spec => []TypeOK
  BY Invariance, PTL DEF IInv

\* Below the threshold no proposal leaves without the operator: the counter an
\* invocation read before it built the demo only grows (close_deal.py:51).
THEOREM ProposalsReviewed == Spec => []ProposalsAreReviewed
<1>1. IInv => ProposalsAreReviewed
  BY DEF IInv, Jobs, JobOK, ProposalsAreReviewed
<1> QED
  BY <1>1, Invariance, PTL

\* A lead that one invocation at a time invoices, whose payment comes after its
\* invoice and whose status nobody writes over has one deal (invoice.py:52-89).
THEOREM OneDeal == Spec => []OneDealPerLead
<1>1. IInv => OneDealPerLead
  BY DEF IInv, Billing, Billed, OneDealPerLead
<1> QED
  BY <1>1, Invariance, PTL

\* A lead that was moved on is waited for or worked on, unless a stage failed
\* after it had moved it (close_deal.py:69, build_site.py:27, invoice.py:125).
THEOREM NobodyForgotten == Spec => []NoLeadForgotten
  BY Invariance, PTL DEF IInv

\* transition_lead takes a lead along VALID_TRANSITIONS, for any number of
\* invocations, unless one of them wrote over a status it had not read
\* (titan/state_machine.py:53).
THEOREM TableIsFollowed == Spec => MovesFollowTable
<1>1. ASSUME IInv, [Next]_vars, NEW l \in Lead, status'[l] # status[l]
      PROVE  status'[l] \in TRANSITIONS[status[l]] \/ l \in overwritten'
  BY <1>1, Written DEF IInv
<1>2. IInv /\ [Next]_vars =>
        [\A l \in Lead : status'[l] # status[l] =>
           status'[l] \in TRANSITIONS[status[l]] \/ l \in overwritten']_vars
  BY <1>1
<1> QED
  BY <1>2, Invariance, PTL DEF Spec, MovesFollowTable

\* The pipeline implements the ledger: only delivered sites are billed, a
\* reference has one debtor, a deal is paid by its own payment, and for good.
THEOREM Refinement == Spec => ImplementsLedger
<1>1. Init => Ledger!Init
  BY Beginning
<1>2. IInv /\ [Next]_vars => [Ledger!Next]_(Ledger!ledgerVars)
  BY LedgerStep DEF IInv
<1> QED
  BY <1>1, <1>2, Invariance, PTL DEF Spec, ImplementsLedger, Ledger!Spec
=============================================================================
