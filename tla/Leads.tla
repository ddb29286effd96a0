------------------------------- MODULE Leads --------------------------------
(***************************************************************************)
(* Consultation requests of one phone number. A submission looks for a     *)
(* lead that is still worked on and merges into it, or creates one; the    *)
(* look-up is not part of the write. Administrators change the status and  *)
(* log contacts from reads of their own.                                   *)
(***************************************************************************)
EXTENDS Naturals, FiniteSets

CONSTANTS Form,          \* submissions and administrators' calls under way together
          MaxLeads,      \* bound: leads
          MaxSubmissions \* bound: submissions to a lead

VARIABLES lead,       \* the leads in the order of their creation
          submitted,  \* submissions that were accepted
          form        \* what each call has read

vars == <<lead, submitted, form>>

LeadStatus == {"NEW", "CONTACTED", "CONVERTED", "REJECTED"}
OpenStatuses == {"NEW", "CONTACTED"}
Idle == [op |-> "idle"]
NoLead == [status |-> "none", submissions |-> 0]

Init == /\ lead = [n \in 1..MaxLeads |-> NoLead]
        /\ submitted = 0
        /\ form = [f \in Form |-> Idle]

Created == {n \in 1..MaxLeads : lead[n] # NoLead}
OpenLeads == {n \in Created : lead[n].status \in OpenStatuses}
Newest(S) == CHOOSE n \in S : \A k \in S : k <= n

Hold(f, what) == form[f] = Idle /\ form' = [form EXCEPT ![f] = what]
Done(f) == form' = [form EXCEPT ![f] = Idle]
GiveUp(f) == form[f] # Idle /\ Done(f) /\ UNCHANGED <<lead, submitted>>

FindOpen(f) ==
  /\ \/ /\ OpenLeads # {}
        /\ LET n == Newest(OpenLeads)
           IN Hold(f, [op |-> "merge", into |-> n, submissions |-> lead[n].submissions])
     \/ OpenLeads = {} /\ Hold(f, [op |-> "create"])
  /\ UNCHANGED <<lead, submitted>>

(* The count is incremented by the database, not set from what was read.   *)
SetCount(f) == form[f].submissions + 1     \* mutant of Incremented
Incremented(f) == lead[form[f].into].submissions + 1
Merge(f) == /\ form[f].op = "merge"
            /\ lead[form[f].into].submissions < MaxSubmissions
            /\ lead' = [lead EXCEPT ![form[f].into].submissions = Incremented(f)]
            /\ submitted' = submitted + 1
            /\ Done(f)

Create(f) == /\ form[f].op = "create"
             /\ Cardinality(Created) < MaxLeads
             /\ lead' = [lead EXCEPT ![Cardinality(Created) + 1] = [status |-> "NEW", submissions |-> 1]]
             /\ submitted' = submitted + 1
             /\ Done(f)

ReadLead(f, n, op) == /\ n \in Created
                      /\ Hold(f, [op |-> op, at |-> n, was |-> lead[n].status])
                      /\ UNCHANGED <<lead, submitted>>

Update(f, to) == /\ form[f].op = "update"
                 /\ to # form[f].was
                 /\ lead' = [lead EXCEPT ![form[f].at].status = to]
                 /\ Done(f)
                 /\ UNCHANGED submitted

(* A contact logged on a lead that was new makes it contacted.             *)
AddNote(f) == /\ form[f].op = "contact"
              /\ lead' = IF form[f].was = "NEW"
                           THEN [lead EXCEPT ![form[f].at].status = "CONTACTED"] ELSE lead
              /\ Done(f)
              /\ UNCHANGED submitted

Step(f) == \/ GiveUp(f)
           \/ FindOpen(f)
           \/ Merge(f)
           \/ Create(f)
           \/ \E n \in 1..MaxLeads, op \in {"update", "contact"} : ReadLead(f, n, op)
           \/ \E to \in LeadStatus : Update(f, to)
           \/ AddNote(f)

Next == \E f \in Form : Step(f)

Spec == Init /\ [][Next]_vars

-----------------------------------------------------------------------------
(* Every accepted submission is counted by one lead, also when several are *)
(* merged into it at the same time (lead.service.ts:66): the running total *)
(* of the leads' counts ends in what was submitted.                        *)
SubmissionsCounted ==
  \E total \in [0..MaxLeads -> 0..submitted] :
    /\ total[0] = 0 /\ total[MaxLeads] = submitted
    /\ \A n \in 1..MaxLeads : total[n] = total[n - 1] + lead[n].submissions
=============================================================================
