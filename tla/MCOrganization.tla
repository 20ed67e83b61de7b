--------------------------- MODULE MCOrganization ---------------------------
(* What an organisation does beside its conversations, for TLC: campaigns,  *)
(* its subscription, the quota of its searches, its audit trail.  The       *)
(* components share no variable, so a behaviour of all is, for each of      *)
(* them, a behaviour of its own with stuttering: a run that works on one at *)
(* a time, with the others at their start, loses nothing a property of one  *)
(* can see.                                                                 *)
EXTENDS Campaign, Billing, MiraQuota, AuditChain, TLC

CONSTANTS x1, x2, y1, y2, s1, s2   \* interchangeable requests, events and orders, sends

VARIABLE part   \* the component this behaviour works on

OrganizationInit ==
    /\ part \in {"campaign", "billing", "quota", "audit"}
    /\ CampaignInit /\ BillingInit /\ MiraInit /\ AuditInit
    /\ part # "audit" => trail = <<>>
    /\ part # "quota" => tier = 1

OrganizationNext ==
    /\ UNCHANGED part
    /\ \/ part = "campaign" /\ CampaignNext /\ UNCHANGED <<billingVars, miraVars, auditVars>>
       \/ part = "billing" /\ BillingNext /\ UNCHANGED <<campaignVars, miraVars, auditVars>>
       \/ part = "quota" /\ MiraNext /\ UNCHANGED <<campaignVars, billingVars, auditVars>>
       \/ part = "audit" /\ AuditNext /\ UNCHANGED <<campaignVars, billingVars, miraVars>>

organizationVars == <<part, campaignVars, billingVars, miraVars, auditVars>>
OrganizationSpec == OrganizationInit /\ [][OrganizationNext]_organizationVars

(* Bounds.  The campaign: two faults with one send job, one with both.  The *)
(* subscription: once requests have overlapped or failed, only behind the   *)
(* end of a trial.  The quota: two businesses tried, or one and one thing   *)
(* besides (a choice of the client, a pack, a new month, a tier given up, a *)
(* call that throws), on an account with a tier or a trial.                 *)
Bounds ==
    /\ faults + Cardinality({s \in Sends : spc[s] # "none"}) <= 3
    /\ alone \/ account.trial = "past"
    /\ tier # NoTier => ~trial
    /\ Cardinality({<<s, l>> \in Searches \X Leads : l \in tried[s]})
         + miraFaults + packs[1] + packs[2] + (month - 1)
         + (IF tier < topTier[month] THEN 1 ELSE 0)
         + Cardinality({r \in Rows : alvo[r] \in {"ARCHIVED", "DELIVERED"}})
         + Cardinality({p \in Landings : Stands(p, "land")}) <= 2

MCOrganizationSymmetry == Permutations({x1, x2}) \cup Permutations({y1, y2}) \cup Permutations({s1, s2})
=============================================================================
