-------------------------- MODULE LeadStateMachine --------------------------
(***************************************************************************)
(* The table of titan/state_machine.py: from each status of a lead, the    *)
(* statuses transition_lead accepts.                                       *)
(***************************************************************************)

LeadStatus ==
  {"discovered", "researched", "email_drafted", "email_queued", "email_sent",
   "followed_up", "replied", "interested", "demo_built", "proposal_sent",
   "negotiating", "closed", "building", "deployed", "invoiced", "paid",
   "lost", "unresponsive", "unsubscribed"}

TRANSITIONS == [s \in LeadStatus |->
  CASE s = "discovered"    -> {"researched", "lost"}
    [] s = "researched"    -> {"email_drafted", "lost"}
    [] s = "email_drafted" -> {"email_queued", "lost"}
    [] s = "email_queued"  -> {"email_sent", "lost"}
    [] s = "email_sent"    -> {"followed_up", "replied", "unresponsive", "lost"}
    [] s = "followed_up"   -> {"replied", "unresponsive", "lost"}
    [] s = "replied"       -> {"interested", "lost", "unsubscribed"}
    [] s = "interested"    -> {"demo_built", "lost"}
    [] s = "demo_built"    -> {"proposal_sent", "negotiating", "lost"}
    [] s = "proposal_sent" -> {"negotiating", "closed", "lost"}
    [] s = "negotiating"   -> {"closed", "lost"}
    [] s = "closed"        -> {"building"}
    [] s = "building"      -> {"deployed"}
    [] s = "deployed"      -> {"invoiced"}
    [] s = "invoiced"      -> {"paid"}
    [] s = "unresponsive"  -> {"email_drafted"}
    [] OTHER               -> {}]

\* A wrong version: any status may follow.
CanTransitionAlways(current, target) == target \in LeadStatus

can_transition(current, target) == target \in TRANSITIONS[current]

=============================================================================
