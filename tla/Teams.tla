--------------------------------- MODULE Teams ---------------------------------
(***************************************************************************)
(* The Cloud dashboard's server actions on the team of one customer:       *)
(* resolving the caller's organisation and role, inviting, changing and    *)
(* removing members, API keys and the audit log.  An action is a request   *)
(* of several statements outside a transaction; requests interleave and    *)
(* may die between any two.  Rows have no unique key but their id.         *)
(***************************************************************************)
EXTENDS Integers, FiniteSets

CONSTANTS
  TeamRequests,
  TeamGuests,       \* the emails that can be invited
  TeamMaxOrgs, TeamMaxRows, TeamMaxLog

ASSUME TeamAssumption ==
  /\ TeamMaxOrgs \in Nat /\ TeamMaxRows \in Nat /\ TeamMaxLog \in Nat
  /\ {"owner", "nobody"} \cap TeamGuests = {}

VARIABLES
  teamOrgs,     \* the customer's organisations
  teamRows,     \* org_members, by id
  teamIssued,   \* the ids that were given out
  teamKey,      \* an API key: "none", "live" or "revoked"
  teamLog,      \* the audit log, as the set of its entries
  teamReq       \* where each request is

teamVars == <<teamOrgs, teamRows, teamIssued, teamKey, teamLog, teamReq>>

TeamOwner == "owner"
TeamEmails == {TeamOwner} \cup TeamGuests
\* A viewer is a member, as far as these actions can tell.
TeamRoles == {"owner", "admin", "member"}
TeamValidRoles == TeamRoles \ {"owner"}
TeamOps == {"invite", "change", "remove", "createKey", "revokeKey"}

\* id is the member row a request reads or makes; email and role what it writes.
TeamIdle == [at |-> "idle", who |-> "nobody", op |-> "none", org |-> 0,
             rank |-> "member", id |-> 0, email |-> "nobody", role |-> "member"]

TeamInit ==
  /\ teamOrgs = 0
  /\ teamRows = <<>>
  /\ teamIssued = 0
  /\ teamKey = "none"
  /\ teamLog = {}
  /\ teamReq = [r \in TeamRequests |-> TeamIdle]

TeamTypeOK ==
  /\ teamOrgs \in 0 .. TeamMaxOrgs
  /\ teamIssued \in 0 .. TeamMaxRows
  /\ DOMAIN teamRows \subseteq 1 .. teamIssued
  /\ \A i \in DOMAIN teamRows :
       teamRows[i] \in [org : 1 .. teamOrgs, email : TeamEmails, role : TeamRoles]
  /\ teamKey \in {"none", "live", "revoked"}
  /\ teamLog \subseteq [op : TeamOps \cup {"denied"}, id : 0 .. teamIssued]
  /\ teamReq \in [TeamRequests ->
       [at : {"idle", "org", "owner", "enroll", "check", "write", "log"},
        who : TeamEmails \cup {"nobody"}, op : TeamOps \cup {"none", "denied"},
        org : 0 .. TeamMaxOrgs, rank : TeamRoles, id : 0 .. TeamMaxRows,
        email : TeamEmails \cup {"nobody"}, role : TeamValidRoles]]

-------------------------------------------------------------------------------
(* Faulty variants, see AcpMerchant. *)

\* The owner's row is only looked for when the organisation is new.
TeamAfterOrg_SkipsOwner(o) == IF o = 0 THEN "owner" ELSE "check"
TeamMayRemove_AnyOther(r, row) == row.email # teamReq[r].who
TeamRemove_LogsFirst(r) ==
  LET e == [op |-> "remove", id |-> teamReq[r].id] IN
    /\ teamReq[r].at = "write" /\ teamReq[r].op = "remove"
    /\ IF e \in teamLog
       THEN /\ teamRows' = [i \in DOMAIN teamRows \ {e.id} |-> teamRows[i]]
            /\ teamReq' = [teamReq EXCEPT ![r] = TeamIdle]
            /\ UNCHANGED teamLog
       ELSE teamLog' = teamLog \cup {e} /\ UNCHANGED <<teamRows, teamReq>>
    /\ UNCHANGED <<teamOrgs, teamIssued, teamKey>>

-------------------------------------------------------------------------------
(* The caller's organisation and role: getCurrentOrgContext, requireRole. *)

TeamGo(r, change) == teamReq' = [teamReq EXCEPT ![r] = change]
TeamDone(r) == TeamGo(r, TeamIdle)
TeamToLog(r, op, i) == TeamGo(r, [TeamIdle EXCEPT !.at = "log", !.op = op, !.id = i])

TeamBegin(r) ==
  /\ teamReq[r].at = "idle"
  /\ \E who \in TeamEmails :
       TeamGo(r, [TeamIdle EXCEPT !.at = "org", !.who = who])
  /\ UNCHANGED <<teamOrgs, teamRows, teamIssued, teamKey, teamLog>>

\* The customer's organisation, any of them, or a new one: check, then insert.
TeamAfterOrg(o) == "owner"

TeamFindOrg(r) ==
  /\ teamReq[r].at = "org" /\ teamReq[r].who = TeamOwner
  /\ \E o \in 0 .. teamOrgs :
       /\ (o = 0) <=> (teamOrgs = 0)
       /\ TeamGo(r, [teamReq[r] EXCEPT !.at = TeamAfterOrg(o), !.org = o,
                     !.rank = "owner"])
  /\ UNCHANGED <<teamOrgs, teamRows, teamIssued, teamKey, teamLog>>

TeamCreateOrg(r) ==
  /\ teamReq[r].at = "owner" /\ teamReq[r].org = 0 /\ teamOrgs < TeamMaxOrgs
  /\ teamOrgs' = teamOrgs + 1
  /\ TeamGo(r, [teamReq[r] EXCEPT !.org = teamOrgs + 1])
  /\ UNCHANGED <<teamRows, teamIssued, teamKey, teamLog>>

TeamRowsOf(o, email) ==
  {i \in DOMAIN teamRows : teamRows[i].org = o /\ teamRows[i].email = email}

TeamUpdateRole(i, role) ==
  teamRows' = IF i \in DOMAIN teamRows
              THEN [teamRows EXCEPT ![i].role = role] ELSE teamRows

\* The owner's row, made an owner's again if it is none, which never happens: it is
\* there before anyone can be invited, and no action changes an owner's row.
TeamFindOwner(r) ==
  /\ teamReq[r].at = "owner" /\ teamReq[r].org # 0
  /\ LET rows == TeamRowsOf(teamReq[r].org, TeamOwner) IN
       \/ /\ rows = {} /\ UNCHANGED teamRows
          /\ TeamGo(r, [teamReq[r] EXCEPT !.at = "enroll"])
       \/ \E i \in rows : TeamUpdateRole(i, "owner")
                         /\ TeamGo(r, [teamReq[r] EXCEPT !.at = "check"])
  /\ UNCHANGED <<teamOrgs, teamIssued, teamKey, teamLog>>

TeamInsertRow(o, email, role) ==
  /\ teamIssued < TeamMaxRows
  /\ teamIssued' = teamIssued + 1
  /\ teamRows' = [i \in DOMAIN teamRows \cup {teamIssued + 1} |->
       IF i \in DOMAIN teamRows THEN teamRows[i]
       ELSE [org |-> o, email |-> email, role |-> role]]

TeamEnroll(r) ==
  /\ teamReq[r].at = "enroll"
  /\ TeamInsertRow(teamReq[r].org, TeamOwner, "owner")
  /\ TeamGo(r, [teamReq[r] EXCEPT !.at = "check"])
  /\ UNCHANGED <<teamOrgs, teamKey, teamLog>>

\* A guest acts in the organisation of any of their rows, with its role; without
\* a row, or below admin, the request ends, the latter with an entry in the log.
TeamFindMember(r) ==
  /\ teamReq[r].at = "org" /\ teamReq[r].who # TeamOwner
  /\ LET rows == {i \in DOMAIN teamRows : teamRows[i].email = teamReq[r].who} IN
       \/ rows = {} /\ TeamDone(r)
       \/ \E i \in rows :
            IF teamRows[i].role \in {"owner", "admin"}
            THEN TeamGo(r, [teamReq[r] EXCEPT
                   !.at = "check", !.org = teamRows[i].org, !.rank = teamRows[i].role])
            ELSE TeamToLog(r, "denied", 0)
  /\ UNCHANGED <<teamOrgs, teamRows, teamIssued, teamKey, teamLog>>

-------------------------------------------------------------------------------
(* The actions: check, write, log.  What a request is for shows at its checks. *)

TeamMayChange(row) == row.role # "owner"
TeamMayRemove(r, row) == row.role # "owner" /\ row.email # teamReq[r].who

TeamMayGrant(r, role) == role = "admin" => teamReq[r].rank = "owner"

TeamChecked(r) ==
  LET q == teamReq[r]
      To(op, o, i, email, role) ==
        TeamGo(r, [TeamIdle EXCEPT !.at = "write", !.op = op, !.org = o, !.id = i,
                                   !.email = email, !.role = role]) IN
    \/ \E email \in TeamEmails, role \in TeamValidRoles :
         /\ TeamRowsOf(q.org, email) = {}
         /\ To("invite", q.org, 0, email, role)
    \/ \E i \in DOMAIN teamRows : teamRows[i].org = q.org /\
         \/ \E role \in TeamValidRoles :
              /\ TeamMayChange(teamRows[i]) /\ TeamMayGrant(r, role)
              /\ To("change", 0, i, "nobody", role)
         \/ /\ TeamMayRemove(r, teamRows[i])
            /\ To("remove", 0, i, "nobody", "member")
    \/ \E op \in {"createKey", "revokeKey"} : To(op, 0, 0, "nobody", "member")

\* The checks pass, or the action throws.
TeamCheck(r) ==
  /\ teamReq[r].at = "check"
  /\ TeamChecked(r) \/ TeamDone(r)
  /\ UNCHANGED <<teamOrgs, teamRows, teamIssued, teamKey, teamLog>>

TeamInvite(r) ==
  /\ teamReq[r].at = "write" /\ teamReq[r].op = "invite"
  /\ TeamInsertRow(teamReq[r].org, teamReq[r].email, teamReq[r].role)
  /\ TeamToLog(r, "invite", teamIssued + 1)
  /\ UNCHANGED <<teamOrgs, teamKey, teamLog>>

TeamChangeRole(r) ==
  /\ teamReq[r].at = "write" /\ teamReq[r].op = "change"
  /\ TeamUpdateRole(teamReq[r].id, teamReq[r].role)
  /\ TeamToLog(r, teamReq[r].op, teamReq[r].id)
  /\ UNCHANGED <<teamOrgs, teamIssued, teamKey, teamLog>>

TeamRemove(r) ==
  /\ teamReq[r].at = "write" /\ teamReq[r].op = "remove"
  /\ teamRows' = [i \in DOMAIN teamRows \ {teamReq[r].id} |-> teamRows[i]]
  /\ TeamToLog(r, teamReq[r].op, teamReq[r].id)
  /\ UNCHANGED <<teamOrgs, teamIssued, teamKey, teamLog>>

TeamCreateKey(r) ==
  /\ teamReq[r].at = "write" /\ teamReq[r].op = "createKey" /\ teamKey = "none"
  /\ teamKey' = "live"
  /\ TeamToLog(r, teamReq[r].op, teamReq[r].id)
  /\ UNCHANGED <<teamOrgs, teamRows, teamIssued, teamLog>>

TeamRevokeKey(r) ==
  /\ teamReq[r].at = "write" /\ teamReq[r].op = "revokeKey" /\ teamKey # "none"
  /\ teamKey' = "revoked"
  /\ TeamToLog(r, teamReq[r].op, teamReq[r].id)
  /\ UNCHANGED <<teamOrgs, teamRows, teamIssued, teamLog>>

TeamAppendAudit(r) ==
  /\ teamReq[r].at = "log" /\ Cardinality(teamLog) < TeamMaxLog
  /\ teamLog' = teamLog \cup {[op |-> teamReq[r].op, id |-> teamReq[r].id]}
  /\ TeamDone(r)
  /\ UNCHANGED <<teamOrgs, teamRows, teamIssued, teamKey>>

\* The process dies, or a statement fails: what was written stays.  A failure to
\* write the log is swallowed, which ends the request all the same.
TeamDies(r) ==
  /\ teamReq[r].at # "idle"
  /\ TeamDone(r)
  /\ UNCHANGED <<teamOrgs, teamRows, teamIssued, teamKey, teamLog>>

TeamStep(r) ==
  \/ TeamBegin(r) \/ TeamFindOrg(r) \/ TeamCreateOrg(r) \/ TeamFindOwner(r)
  \/ TeamEnroll(r) \/ TeamFindMember(r) \/ TeamCheck(r)
  \/ TeamInvite(r) \/ TeamChangeRole(r) \/ TeamRemove(r)
  \/ TeamCreateKey(r) \/ TeamRevokeKey(r) \/ TeamAppendAudit(r) \/ TeamDies(r)

TeamNext == \E r \in TeamRequests : TeamStep(r)

TeamSpec == TeamInit /\ [][TeamNext]_teamVars

-------------------------------------------------------------------------------
(* Properties. *)

\* An organisation that has members has its owner among them, although the
\* owner's row is made on first access, by check and insert, and after the row of
\* the organisation.
MembersHaveAnOwner ==
  \A i \in DOMAIN teamRows : \E j \in DOMAIN teamRows :
    /\ teamRows[j].org = teamRows[i].org
    /\ teamRows[j].email = TeamOwner /\ teamRows[j].role = "owner"

\* What the audit log says was done is done, whoever died in between: an invited
\* member has a row, one that was removed has none, a revoked key is dead.
AuditIsTrue ==
  \A e \in teamLog :
    /\ e.op \in {"invite", "change", "remove"} => e.id \in 1 .. teamIssued
    /\ e.op = "remove" => e.id \notin DOMAIN teamRows
    /\ e.op = "revokeKey" => teamKey = "revoked"

\* No step removes or demotes an owner, although the check of the row's role and
\* the write are two statements.
OwnersStay ==
  [][\A i \in DOMAIN teamRows : teamRows[i].role = "owner" =>
       i \in DOMAIN teamRows' /\ teamRows'[i].role = "owner"]_teamVars
===============================================================================
