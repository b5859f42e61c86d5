---------------------------- MODULE ServicesProofs ----------------------------
(***************************************************************************)
(* Proofs about what is hosted, the teams, the playground and the          *)
(* subscriptions, and about the sub-agents; and the theorems about all the *)
(* services together, from those of their parts.                           *)
(***************************************************************************)
EXTENDS MCServices, MerchantProofs, PolicyEngineProofs, ClientProofs, SequenceTheorems,
  TLAPS

-------------------------------------------------------------------------------
(* The teams. *)

TeamOwned(o) ==
  \E j \in DOMAIN teamRows :
    /\ teamRows[j].org = o
    /\ teamRows[j].email = TeamOwner /\ teamRows[j].role = "owner"

\* The owner's email never has another role.
TeamOwnersRank ==
  \A i \in DOMAIN teamRows : teamRows[i].email = TeamOwner => teamRows[i].role = "owner"

\* What a request is about to do: past "owner" its organisation exists, past "enroll"
\* it has its owner; who is invited is not the owner; what is changed or removed is no
\* owner's row; and what is to be logged is done.
TeamRequestIsSound(q) ==
  /\ q.at = "org" => q.org = 0
  /\ q.org <= teamOrgs /\ q.id <= teamIssued
  /\ q.at = "enroll" => q.org # 0
  /\ q.at = "check" => TeamOwned(q.org)
  /\ (q.at = "write" /\ q.op = "invite") =>
       TeamOwned(q.org) /\ q.email \in TeamEmails \ {TeamOwner}
  /\ q.at \in {"write", "log"} /\ q.op \in {"change", "remove"} => q.id # 0
  /\ q.at = "write" /\ q.id \in DOMAIN teamRows => teamRows[q.id].role # "owner"
  /\ q.at = "write" => q.op \in TeamOps
  /\ q.at = "log" =>
       /\ q.op \in TeamOps \cup {"denied"}
       /\ q.op = "invite" => q.id # 0
       /\ q.op = "remove" => q.id \notin DOMAIN teamRows
       /\ q.op = "revokeKey" => teamKey = "revoked"

TeamInv ==
  /\ TeamTypeOK /\ TeamOwnersRank
  /\ \A r \in TeamRequests : TeamRequestIsSound(teamReq[r])
  /\ MembersHaveAnOwner /\ AuditIsTrue

\* The requests and rows that TeamTypeOK has.
TeamQueries ==
  [at : {"idle", "org", "owner", "enroll", "check", "write", "log"},
   who : TeamEmails \cup {"nobody"}, op : TeamOps \cup {"none", "denied"},
   org : 0 .. TeamMaxOrgs, rank : TeamRoles, id : 0 .. TeamMaxRows,
   email : TeamEmails \cup {"nobody"}, role : TeamValidRoles]

\* The row of a member stays what it is, but for the role of one who is no owner; a
\* new one has an id that was never given out, and is in an organisation with an owner.
TeamRowIsKept(i) ==
  /\ i \in DOMAIN teamRows
  /\ teamRows'[i].org = teamRows[i].org /\ teamRows'[i].email = teamRows[i].email
  /\ \/ teamRows'[i].role = teamRows[i].role
     \/ teamRows[i].role # "owner" /\ teamRows'[i].role # "owner"

TeamRowIsNew(i) ==
  /\ i > teamIssued
  /\ TeamOwned(teamRows[i].org)'
  /\ teamRows'[i].email = TeamOwner => teamRows'[i].role = "owner"

TeamEntryIsTrue(e) ==
  /\ e.op \in {"invite", "change", "remove"} => e.id \in 1 .. teamIssued
  /\ e.op = "remove" => e.id \notin DOMAIN teamRows
  /\ e.op = "revokeKey" => teamKey = "revoked"

\* What every step keeps of the organisations, the rows, the key and the log.
TeamKeepsRows ==
  /\ teamOrgs' \in teamOrgs .. TeamMaxOrgs /\ teamIssued' \in teamIssued .. TeamMaxRows
  /\ DOMAIN teamRows' \subseteq 1 .. teamIssued'
  /\ \A i \in DOMAIN teamRows' :
       /\ teamRows'[i] \in [org : 1 .. teamOrgs', email : TeamEmails, role : TeamRoles]
       /\ TeamRowIsKept(i) \/ TeamRowIsNew(i)
  /\ \A i \in DOMAIN teamRows : teamRows[i].role = "owner" =>
       i \in DOMAIN teamRows' /\ TeamRowIsKept(i)

TeamKeepsLog ==
  /\ teamKey' \in {"none", "live", "revoked"}
  /\ teamKey = "revoked" => teamKey' = "revoked"
  /\ \A e \in teamLog' : e \in teamLog \/
       /\ e \in [op : TeamOps \cup {"denied"}, id : 0 .. teamIssued]
       /\ TeamEntryIsTrue(e)

\* A customer that has no organisation has no members.
LEMMA TeamInvInit == TeamInit => TeamInv
<1> SUFFICES ASSUME TeamInit PROVE TeamInv
  OBVIOUS
<1>1. DOMAIN teamRows = {}
  BY DEF TeamInit
<1>2. TeamTypeOK
  BY <1>1, TeamAssumption
  DEF TeamAssumption, TeamInit, TeamTypeOK, TeamIdle, TeamEmails, TeamRoles, TeamValidRoles
<1>3. \A r \in TeamRequests : TeamRequestIsSound(teamReq[r])
  BY <1>1 DEF TeamInit, TeamRequestIsSound, TeamIdle
<1>4. TeamOwnersRank /\ MembersHaveAnOwner /\ AuditIsTrue
  BY <1>1 DEF TeamInit, TeamOwnersRank, MembersHaveAnOwner, AuditIsTrue
<1> QED
  BY <1>2, <1>3, <1>4 DEF TeamInv

\* An organisation keeps its owner.
LEMMA TeamStaysOwned ==
  ASSUME TeamKeepsRows, NEW o, TeamOwned(o)
  PROVE  TeamOwned(o)'
<1>1. PICK j \in DOMAIN teamRows : /\ teamRows[j].org = o /\ teamRows[j].email = TeamOwner
                                   /\ teamRows[j].role = "owner"
  BY DEF TeamOwned
<1>2. /\ j \in DOMAIN teamRows' /\ teamRows'[j].org = o /\ teamRows'[j].email = TeamOwner
      /\ teamRows'[j].role = "owner"
  BY <1>1 DEF TeamKeepsRows, TeamRowIsKept
<1> QED
  BY <1>2 DEF TeamOwned

\* What one request does leaves every other sound.
LEMMA TeamOthersStaySound ==
  ASSUME TeamInv, TeamKeepsRows, TeamKeepsLog, NEW s \in TeamRequests,
         teamReq'[s] = teamReq[s]
  PROVE  TeamRequestIsSound(teamReq[s])'
<1> DEFINE q == teamReq[s]
<1>1. TeamRequestIsSound(q) /\ q \in TeamQueries
  BY DEF TeamInv, TeamTypeOK, TeamQueries
<1>2. /\ teamOrgs \in Nat /\ teamIssued \in Nat /\ q.org \in Nat /\ q.id \in Nat
      /\ teamOrgs' \in Nat /\ teamOrgs' >= teamOrgs
      /\ teamIssued' \in Nat /\ teamIssued' >= teamIssued
  BY <1>1, TeamAssumption
  DEF TeamAssumption, TeamInv, TeamTypeOK, TeamKeepsRows, TeamQueries
<1>3. q.id \in DOMAIN teamRows' =>
        /\ q.id \in DOMAIN teamRows
        /\ teamRows[q.id].role # "owner" => teamRows'[q.id].role # "owner"
  BY <1>1, <1>2 DEF TeamRequestIsSound, TeamKeepsRows, TeamRowIsKept, TeamRowIsNew
<1>4. TeamOwned(q.org) => TeamOwned(teamReq[s].org)'
  <2>1. PICK o : o = q.org
    OBVIOUS
  <2>2. TeamOwned(o) => TeamOwned(o)'
    BY TeamStaysOwned
  <2> QED
    BY <2>1, <2>2 DEF TeamOwned
<1> QED
  BY <1>1, <1>2, <1>3, <1>4 DEF TeamRequestIsSound, TeamKeepsLog

\* A request that goes on to a sound state keeps the invariant.
LEMMA TeamKeepsInv ==
  ASSUME TeamInv, NEW r \in TeamRequests, NEW q \in TeamQueries, TeamGo(r, q),
         TeamKeepsRows, TeamKeepsLog, TeamRequestIsSound(teamReq[r])'
  PROVE  TeamInv'
<1>1. teamReq' = [teamReq EXCEPT ![r] = q] /\ teamReq \in [TeamRequests -> TeamQueries]
  BY DEF TeamGo, TeamInv, TeamTypeOK, TeamQueries
<1>2. /\ teamOrgs \in Nat /\ teamIssued \in Nat /\ teamOrgs' \in 0 .. TeamMaxOrgs
      /\ teamIssued' \in 0 .. TeamMaxRows /\ teamIssued' >= teamIssued
  BY TeamAssumption DEF TeamAssumption, TeamInv, TeamTypeOK, TeamKeepsRows
<1>3. TeamTypeOK'
  <2>1. teamReq' \in [TeamRequests -> TeamQueries]
    BY <1>1
  <2>2. teamLog' \subseteq [op : TeamOps \cup {"denied"}, id : 0 .. teamIssued']
    BY <1>2 DEF TeamKeepsLog, TeamInv, TeamTypeOK
  <2> QED
    BY <1>2, <2>1, <2>2 DEF TeamKeepsRows, TeamKeepsLog, TeamTypeOK, TeamQueries
<1>4. TeamOwnersRank'
  BY DEF TeamInv, TeamKeepsRows, TeamRowIsKept, TeamRowIsNew, TeamOwnersRank
<1>5. ASSUME NEW s \in TeamRequests PROVE TeamRequestIsSound(teamReq[s])'
  <2>1. CASE s = r
    BY <2>1
  <2>2. CASE s # r
    BY <1>1, <2>2, TeamOthersStaySound
  <2> QED
    BY <2>1, <2>2
<1>6. MembersHaveAnOwner'
  <2>1. SUFFICES ASSUME NEW i \in DOMAIN teamRows' PROVE TeamOwned(teamRows[i].org)'
    BY DEF MembersHaveAnOwner, TeamOwned
  <2>2. CASE TeamRowIsNew(i)
    BY <2>2 DEF TeamRowIsNew
  <2>3. CASE TeamRowIsKept(i)
    <3>1. PICK o : o = teamRows[i].org
      OBVIOUS
    <3>2. TeamOwned(o)
      BY <2>3, <3>1 DEF TeamRowIsKept, TeamInv, MembersHaveAnOwner, TeamOwned
    <3>3. TeamOwned(o)'
      BY <3>2, TeamStaysOwned
    <3> QED
      BY <2>3, <3>1, <3>3 DEF TeamRowIsKept, TeamOwned
  <2> QED
    BY <2>2, <2>3 DEF TeamKeepsRows
<1>7. AuditIsTrue'
  <2>1. SUFFICES ASSUME NEW e \in teamLog' PROVE TeamEntryIsTrue(e)'
    BY DEF AuditIsTrue, TeamEntryIsTrue
  <2>2. TeamEntryIsTrue(e) /\ e.id \in 0 .. teamIssued
    BY DEF TeamKeepsLog, TeamInv, TeamTypeOK, AuditIsTrue, TeamEntryIsTrue
  <2>3. \A i \in 1 .. teamIssued : i \in DOMAIN teamRows' => i \in DOMAIN teamRows
    BY <1>2 DEF TeamKeepsRows, TeamRowIsKept, TeamRowIsNew
  <2> QED
    BY <1>2, <2>2, <2>3 DEF TeamEntryIsTrue, TeamKeepsLog
<1> QED
  BY <1>3, <1>4, <1>5, <1>6, <1>7 DEF TeamInv

\* Steps that leave the rows, or the key and the log, alone.
LEMMA TeamSameRows ==
  ASSUME TeamInv, UNCHANGED <<teamRows, teamIssued>>, teamOrgs' \in teamOrgs .. TeamMaxOrgs
  PROVE  TeamKeepsRows
<1>1. teamOrgs \in Nat /\ teamIssued \in 0 .. TeamMaxRows
  BY TeamAssumption DEF TeamAssumption, TeamInv, TeamTypeOK
<1> QED
  BY <1>1, TeamAssumption
  DEF TeamAssumption, TeamInv, TeamTypeOK, TeamKeepsRows, TeamRowIsKept

\* A step that leaves the API key and the log alone keeps the log.
LEMMA TeamSameLog ==
  ASSUME TeamInv, UNCHANGED <<teamKey, teamLog>>
  PROVE  TeamKeepsLog
BY DEF TeamInv, TeamTypeOK, TeamKeepsLog

\* Steps that change nothing but the request.
LEMMA TeamGoKeepsInv ==
  ASSUME TeamInv, NEW r \in TeamRequests, NEW q \in TeamQueries, TeamGo(r, q),
         UNCHANGED <<teamOrgs, teamRows, teamIssued, teamKey, teamLog>>,
         TeamRequestIsSound(teamReq[r])'
  PROVE  TeamInv' /\ TeamKeepsRows
<1>1. teamOrgs' \in teamOrgs .. TeamMaxOrgs
  BY TeamAssumption DEF TeamAssumption, TeamInv, TeamTypeOK
<1> QED
  BY <1>1, TeamSameRows, TeamSameLog, TeamKeepsInv

\* The request itself, and where it goes.
TeamFacts(r) ==
  /\ teamReq[r] \in TeamQueries /\ TeamRequestIsSound(teamReq[r])
  /\ teamOrgs \in 0 .. TeamMaxOrgs /\ teamIssued \in 0 .. TeamMaxRows
  /\ teamOrgs \in Nat /\ teamIssued \in Nat /\ TeamMaxOrgs \in Nat /\ TeamMaxRows \in Nat
  /\ DOMAIN teamRows \subseteq 1 .. teamIssued
  /\ \A i \in DOMAIN teamRows :
       /\ teamRows[i].org \in 1 .. teamOrgs /\ teamRows[i].email \in TeamEmails
       /\ teamRows[i].role \in TeamRoles
  /\ TeamIdle \in TeamQueries /\ TeamIdle.org = 0 /\ TeamIdle.id = 0
  /\ \A q : TeamGo(r, q) => teamReq'[r] = q

\* The invariant gives these facts of every request.
LEMMA TeamQuery ==
  ASSUME TeamInv, NEW r \in TeamRequests
  PROVE  TeamFacts(r)
BY TeamAssumption
DEF TeamAssumption, TeamInv, TeamTypeOK, TeamQueries, TeamGo, TeamIdle, TeamRoles,
    TeamValidRoles, TeamFacts

\* A request that ends or starts anew is sound.
LEMMA TeamIdles ==
  ASSUME TeamInv, NEW r \in TeamRequests, TeamDone(r), teamOrgs' \in Nat, teamIssued' \in Nat
  PROVE  TeamRequestIsSound(teamReq[r])'
<1>1. teamReq'[r] = TeamIdle
  BY TeamQuery DEF TeamDone, TeamFacts
<1>2. TeamIdle.at = "idle" /\ TeamIdle.org = 0 /\ TeamIdle.id = 0
  BY DEF TeamIdle
<1> QED
  BY <1>1, <1>2 DEF TeamRequestIsSound

\* A row that is inserted is the only new one, and may be in an organisation that has
\* its owner, or be the owner's.
LEMMA TeamInserts ==
  ASSUME TeamInv, NEW o \in 1 .. teamOrgs, NEW email \in TeamEmails, NEW role \in TeamRoles,
         TeamInsertRow(o, email, role), teamOrgs' = teamOrgs,
         (email = TeamOwner /\ role = "owner") \/ (email # TeamOwner /\ TeamOwned(o))
  PROVE  /\ TeamKeepsRows /\ teamIssued' = teamIssued + 1
         /\ teamIssued' \in DOMAIN teamRows'
         /\ teamRows'[teamIssued'] = [org |-> o, email |-> email, role |-> role]
<1>1. /\ teamIssued \in Nat /\ TeamMaxRows \in Nat /\ DOMAIN teamRows \subseteq 1 .. teamIssued
      /\ teamOrgs \in 0 .. TeamMaxOrgs /\ TeamMaxOrgs \in Nat
  BY TeamAssumption DEF TeamAssumption, TeamInv, TeamTypeOK
<1>2. /\ teamIssued' = teamIssued + 1 /\ teamIssued' \in teamIssued .. TeamMaxRows
      /\ DOMAIN teamRows' = DOMAIN teamRows \cup {teamIssued + 1}
      /\ \A i \in DOMAIN teamRows : teamRows'[i] = teamRows[i]
      /\ teamRows'[teamIssued + 1] = [org |-> o, email |-> email, role |-> role]
  BY <1>1 DEF TeamInsertRow
<1>3. TeamOwned(teamRows[teamIssued].org)'
  <2>1. CASE email = TeamOwner /\ role = "owner"
    BY <1>2, <2>1 DEF TeamOwned
  <2>2. CASE TeamOwned(o)
    <3>1. PICK j \in DOMAIN teamRows :
            /\ teamRows[j].org = o /\ teamRows[j].email = TeamOwner
            /\ teamRows[j].role = "owner"
      BY <2>2 DEF TeamOwned
    <3> QED
      BY <1>2, <3>1 DEF TeamOwned
  <2> QED
    BY <2>1, <2>2
<1>4. ASSUME NEW i \in DOMAIN teamRows'
      PROVE  /\ teamRows'[i] \in [org : 1 .. teamOrgs', email : TeamEmails, role : TeamRoles]
             /\ TeamRowIsKept(i) \/ TeamRowIsNew(i)
  <2>1. CASE i \in DOMAIN teamRows
    BY <1>2, <2>1 DEF TeamInv, TeamTypeOK, TeamRowIsKept
  <2>2. CASE i = teamIssued + 1
    BY <1>1, <1>2, <1>3, <2>2 DEF TeamRowIsNew
  <2> QED
    BY <1>2, <2>1, <2>2
<1>5. ASSUME NEW i \in DOMAIN teamRows PROVE i \in DOMAIN teamRows' /\ TeamRowIsKept(i)
  BY <1>2 DEF TeamRowIsKept
<1>6. TeamKeepsRows
  BY <1>1, <1>2, <1>4, <1>5 DEF TeamKeepsRows
<1> QED
  BY <1>1, <1>2, <1>6

\* Each step of a request keeps the invariant, and the rows of the owners.
LEMMA TeamLookupKeepsInv ==
  ASSUME TeamInv, NEW r \in TeamRequests,
         TeamBegin(r) \/ TeamFindOrg(r) \/ TeamFindMember(r) \/ TeamDies(r)
  PROVE  TeamInv' /\ TeamKeepsRows
<1>0. TeamFacts(r)
  BY TeamQuery
<1>1. UNCHANGED <<teamOrgs, teamRows, teamIssued, teamKey, teamLog>>
  BY DEF TeamBegin, TeamFindOrg, TeamFindMember, TeamDies
<1>2. teamOrgs' \in Nat /\ teamIssued' \in Nat /\ teamOrgs' >= 0 /\ teamIssued' >= 0
  BY <1>0, <1>1 DEF TeamFacts
<1>3. CASE TeamDone(r)
  <2>1. TeamRequestIsSound(teamReq[r])'
    BY <1>2, <1>3, TeamIdles
  <2>2. TeamIdle \in TeamQueries /\ TeamGo(r, TeamIdle)
    BY <1>0, <1>3 DEF TeamFacts, TeamDone
  <2> QED
    BY <1>1, <2>1, <2>2, TeamGoKeepsInv
<1>4. CASE TeamBegin(r)
  <2>1. PICK who \in TeamEmails : TeamGo(r, [TeamIdle EXCEPT !.at = "org", !.who = who])
    BY <1>4 DEF TeamBegin
  <2> DEFINE q == [TeamIdle EXCEPT !.at = "org", !.who = who]
  <2>2. /\ TeamGo(r, q) /\ q \in TeamQueries /\ teamReq'[r].at = "org"
        /\ teamReq'[r].org = 0 /\ teamReq'[r].id = 0
    BY <1>0, <2>1 DEF TeamFacts, TeamQueries
  <2> HIDE DEF q
  <2>3. TeamRequestIsSound(teamReq[r])'
    BY <1>2, <2>2 DEF TeamRequestIsSound
  <2> QED
    BY <1>1, <2>2, <2>3, TeamGoKeepsInv
<1>5. CASE TeamFindOrg(r)
  <2>1. PICK o \in 0 .. teamOrgs :
          TeamGo(r, [teamReq[r] EXCEPT !.at = TeamAfterOrg(o), !.org = o, !.rank = "owner"])
    BY <1>5 DEF TeamFindOrg
  <2> DEFINE q == [teamReq[r] EXCEPT !.at = TeamAfterOrg(o), !.org = o, !.rank = "owner"]
  <2>2. o \in 0 .. TeamMaxOrgs /\ o <= teamOrgs' /\ teamReq[r].id <= teamIssued'
    BY <1>0, <1>1 DEF TeamFacts, TeamRequestIsSound
  <2>3. /\ TeamGo(r, q) /\ q \in TeamQueries /\ teamReq'[r].at = "owner"
        /\ teamReq'[r].org = o /\ teamReq'[r].id = teamReq[r].id
    BY ZenonT(30), <1>0, <2>1, <2>2 DEF TeamFacts, TeamQueries, TeamAfterOrg, TeamRoles
  <2> HIDE DEF q
  <2>4. TeamRequestIsSound(teamReq[r])'
    BY <2>2, <2>3 DEF TeamRequestIsSound
  <2> QED
    BY <1>1, <2>3, <2>4, TeamGoKeepsInv
<1>6. CASE TeamToLog(r, "denied", 0)
  <2> DEFINE q == [TeamIdle EXCEPT !.at = "log", !.op = "denied", !.id = 0]
  <2>1. /\ TeamGo(r, q) /\ q \in TeamQueries /\ teamReq'[r].at = "log"
        /\ teamReq'[r].op = "denied" /\ teamReq'[r].org = 0 /\ teamReq'[r].id = 0
    BY <1>0, <1>6 DEF TeamFacts, TeamToLog, TeamQueries
  <2> HIDE DEF q
  <2>2. TeamRequestIsSound(teamReq[r])'
    BY <1>2, <2>1 DEF TeamRequestIsSound
  <2> QED
    BY <1>1, <2>1, <2>2, TeamGoKeepsInv
<1>7. ASSUME NEW i \in DOMAIN teamRows,
             TeamGo(r, [teamReq[r] EXCEPT
               !.at = "check", !.org = teamRows[i].org, !.rank = teamRows[i].role])
      PROVE  TeamInv' /\ TeamKeepsRows
  <2>1. PICK o \in 1 .. teamOrgs, rank \in TeamRoles :
          o = teamRows[i].org /\ rank = teamRows[i].role
    BY <1>0 DEF TeamFacts
  <2> DEFINE q == [teamReq[r] EXCEPT !.at = "check", !.org = o, !.rank = rank]
  <2>2. o \in 0 .. TeamMaxOrgs /\ o <= teamOrgs' /\ teamReq[r].id <= teamIssued'
    BY <1>0, <1>1 DEF TeamFacts, TeamRequestIsSound
  <2>3. /\ TeamGo(r, q) /\ q \in TeamQueries /\ teamReq'[r].at = "check"
        /\ teamReq'[r].org = o /\ teamReq'[r].id = teamReq[r].id
    BY <1>0, <1>7, <2>1, <2>2 DEF TeamFacts, TeamQueries
  <2> HIDE DEF q
  <2>4. TeamOwned(o)
    BY <2>1 DEF TeamInv, MembersHaveAnOwner, TeamOwned
  <2>5. TeamOwned(teamReq[r].org)'
    BY <1>1, <2>3, <2>4 DEF TeamOwned
  <2>6. TeamRequestIsSound(teamReq[r])'
    BY <2>2, <2>3, <2>5 DEF TeamRequestIsSound
  <2> QED
    BY <1>1, <2>3, <2>6, TeamGoKeepsInv
<1>8. CASE TeamFindMember(r)
  BY <1>3, <1>6, <1>7, <1>8 DEF TeamFindMember
<1>9. CASE TeamDies(r)
  BY <1>3, <1>9 DEF TeamDies
<1> QED
  BY <1>4, <1>5, <1>8, <1>9

\* The owner's row is found or made.
LEMMA TeamOwnerKeepsInv ==
  ASSUME TeamInv, NEW r \in TeamRequests,
         TeamCreateOrg(r) \/ TeamFindOwner(r) \/ TeamEnroll(r)
  PROVE  TeamInv' /\ TeamKeepsRows
<1>0. TeamFacts(r)
  BY TeamQuery
<1>1. TeamKeepsLog
  BY TeamSameLog DEF TeamCreateOrg, TeamFindOwner, TeamEnroll
<1>2. CASE TeamCreateOrg(r)
  <2> DEFINE q == [teamReq[r] EXCEPT !.org = teamOrgs + 1]
  <2>1. /\ teamReq[r].at = "owner" /\ UNCHANGED <<teamRows, teamIssued>>
        /\ teamOrgs' = teamOrgs + 1 /\ TeamGo(r, q)
    BY <1>2 DEF TeamCreateOrg
  <2>2. /\ teamOrgs' \in 0 .. TeamMaxOrgs /\ teamOrgs' \in teamOrgs .. TeamMaxOrgs
        /\ teamOrgs' \in Nat /\ teamReq[r].id <= teamIssued'
    BY <1>0, <1>2, <2>1 DEF TeamFacts, TeamCreateOrg, TeamRequestIsSound
  <2>3. /\ q \in TeamQueries /\ teamReq'[r].at = "owner"
        /\ teamReq'[r].org = teamOrgs' /\ teamReq'[r].id = teamReq[r].id
    BY <1>0, <2>1, <2>2 DEF TeamFacts, TeamQueries
  <2> HIDE DEF q
  <2>4. TeamRequestIsSound(teamReq[r])'
    BY <2>2, <2>3 DEF TeamRequestIsSound
  <2>5. TeamKeepsRows
    BY <2>1, <2>2, TeamSameRows
  <2> QED
    BY <1>1, <2>1, <2>3, <2>4, <2>5, TeamKeepsInv
<1>3. CASE TeamFindOwner(r)
  <2>1. /\ UNCHANGED <<teamOrgs, teamIssued, teamKey, teamLog>>
        /\ teamReq[r].at = "owner" /\ teamReq[r].org # 0
    BY <1>3 DEF TeamFindOwner
  <2>2. teamReq[r].org <= teamOrgs' /\ teamReq[r].id <= teamIssued'
    BY <1>0, <2>1 DEF TeamFacts, TeamRequestIsSound
  <2>3. CASE UNCHANGED teamRows /\ TeamGo(r, [teamReq[r] EXCEPT !.at = "enroll"])
    <3> DEFINE q == [teamReq[r] EXCEPT !.at = "enroll"]
    <3>1. /\ TeamGo(r, q) /\ q \in TeamQueries /\ teamReq'[r].at = "enroll"
          /\ teamReq'[r].org = teamReq[r].org /\ teamReq'[r].id = teamReq[r].id
      BY <1>0, <2>3 DEF TeamFacts, TeamQueries
    <3> HIDE DEF q
    <3>2. TeamRequestIsSound(teamReq[r])'
      BY <2>1, <2>2, <3>1 DEF TeamRequestIsSound
    <3> QED
      BY <2>1, <2>3, <3>1, <3>2, TeamGoKeepsInv
  <2>4. ASSUME NEW i \in TeamRowsOf(teamReq[r].org, TeamOwner), TeamUpdateRole(i, "owner"),
               TeamGo(r, [teamReq[r] EXCEPT !.at = "check"])
        PROVE  TeamInv' /\ TeamKeepsRows
    <3> DEFINE q == [teamReq[r] EXCEPT !.at = "check"]
    <3>1. /\ i \in DOMAIN teamRows /\ teamRows[i].org = teamReq[r].org
          /\ teamRows[i].email = TeamOwner /\ teamRows[i].role = "owner"
      BY DEF TeamRowsOf, TeamInv, TeamOwnersRank
    <3>2. DOMAIN teamRows' = DOMAIN teamRows
      BY <2>4, <3>1 DEF TeamUpdateRole
    <3>3. ASSUME NEW j \in DOMAIN teamRows
          PROVE  TeamRowIsKept(j) /\ teamRows'[j].role \in TeamRoles
      <4>1. teamRows[j].role \in TeamRoles
        BY <1>0 DEF TeamFacts
      <4>2. /\ teamRows'[j].org = teamRows[j].org
            /\ teamRows'[j].email = teamRows[j].email
            /\ teamRows'[j].role = teamRows[j].role
        BY <1>0, <2>4, <3>1 DEF TeamUpdateRole, TeamInv, TeamTypeOK
      <4> QED
        BY <3>2, <4>1, <4>2 DEF TeamRowIsKept
    <3>4. \A j \in DOMAIN teamRows : teamRows'[j] \in
             [org : 1 .. teamOrgs', email : TeamEmails, role : TeamRoles]
      BY <2>1, <2>4, <3>1 DEF TeamUpdateRole, TeamInv, TeamTypeOK, TeamRoles
    <3>5. TeamKeepsRows
      BY <1>0, <2>1, <3>2, <3>3, <3>4 DEF TeamKeepsRows, TeamFacts
    <3>6. /\ TeamGo(r, q) /\ q \in TeamQueries /\ teamReq'[r].at = "check"
          /\ teamReq'[r].org = teamReq[r].org /\ teamReq'[r].id = teamReq[r].id
      BY <1>0, <2>4 DEF TeamFacts, TeamQueries
    <3> HIDE DEF q
    <3>7. TeamOwned(teamReq[r].org)'
      BY <3>1, <3>2, <3>3, <3>6 DEF TeamOwned, TeamRowIsKept
    <3>8. TeamRequestIsSound(teamReq[r])'
      BY <2>1, <2>2, <3>6, <3>7 DEF TeamRequestIsSound
    <3> QED
      BY <1>1, <3>5, <3>6, <3>8, TeamKeepsInv
  <2> QED
    BY <1>3, <2>3, <2>4 DEF TeamFindOwner
<1>4. CASE TeamEnroll(r)
  <2> DEFINE q == [teamReq[r] EXCEPT !.at = "check"]
  <2>1. /\ teamReq[r].at = "enroll" /\ TeamInsertRow(teamReq[r].org, TeamOwner, "owner")
        /\ UNCHANGED <<teamOrgs, teamKey, teamLog>> /\ TeamGo(r, q)
    BY <1>4 DEF TeamEnroll
  <2>2. teamReq[r].org \in 1 .. teamOrgs /\ teamReq[r].id <= teamIssued
    <3>1. teamReq[r].org \in 0 .. TeamMaxOrgs
      BY <1>0 DEF TeamFacts, TeamQueries
    <3> QED
      BY <1>0, <2>1, <3>1 DEF TeamFacts, TeamRequestIsSound
  <2>3. /\ q \in TeamQueries /\ teamReq'[r].at = "check"
        /\ teamReq'[r].org = teamReq[r].org /\ teamReq'[r].id = teamReq[r].id
    BY <1>0, <2>1 DEF TeamFacts, TeamQueries
  <2> HIDE DEF q
  <2>4. /\ TeamKeepsRows /\ teamIssued' \in DOMAIN teamRows' /\ teamIssued' = teamIssued + 1
        /\ teamRows'[teamIssued'] =
             [org |-> teamReq[r].org, email |-> TeamOwner, role |-> "owner"]
    BY <2>1, <2>2, TeamInserts DEF TeamEmails, TeamRoles
  <2>5. TeamOwned(teamReq[r].org)'
    BY <2>3, <2>4 DEF TeamOwned
  <2>6. teamReq'[r].org <= teamOrgs' /\ teamReq'[r].id <= teamIssued'
    <3>1. teamReq[r].id \in 0 .. TeamMaxRows
      BY <1>0 DEF TeamFacts, TeamQueries
    <3> QED
      BY <1>0, <2>1, <2>2, <2>3, <2>4, <3>1 DEF TeamFacts
  <2>7. TeamRequestIsSound(teamReq[r])'
    BY <2>3, <2>5, <2>6 DEF TeamRequestIsSound
  <2> QED
    BY <1>1, <2>1, <2>3, <2>4, <2>7, TeamKeepsInv
<1> QED
  BY <1>2, <1>3, <1>4

\* The checks leave nothing behind but what is to be written.
LEMMA TeamCheckKeepsInv ==
  ASSUME TeamInv, NEW r \in TeamRequests, TeamCheck(r)
  PROVE  TeamInv' /\ TeamKeepsRows
<1>0. TeamFacts(r)
  BY TeamQuery
<1>1. UNCHANGED <<teamOrgs, teamRows, teamIssued, teamKey, teamLog>>
      /\ teamReq[r].at = "check"
  BY DEF TeamCheck
<1>2. teamOrgs' \in Nat /\ teamIssued' \in Nat
  BY <1>0, <1>1 DEF TeamFacts
<1>3. CASE TeamDone(r)
  <2>1. TeamRequestIsSound(teamReq[r])'
    BY <1>2, <1>3, TeamIdles
  <2>2. TeamIdle \in TeamQueries /\ TeamGo(r, TeamIdle)
    BY <1>0, <1>3 DEF TeamFacts, TeamDone
  <2> QED
    BY <1>1, <2>1, <2>2, TeamGoKeepsInv
<1>4. ASSUME NEW op \in TeamOps, NEW o \in 0 .. TeamMaxOrgs, NEW i \in 0 .. TeamMaxRows,
             NEW email \in TeamEmails \cup {"nobody"}, NEW role \in TeamValidRoles,
             o <= teamOrgs, i <= teamIssued,
             i \in DOMAIN teamRows => teamRows[i].role # "owner",
             op = "invite" => TeamOwned(o) /\ email \in TeamEmails \ {TeamOwner},
             op \in {"change", "remove"} => i # 0,
             TeamGo(r, [TeamIdle EXCEPT !.at = "write", !.op = op, !.org = o, !.id = i,
                                        !.email = email, !.role = role])
      PROVE  TeamInv' /\ TeamKeepsRows
  <2> DEFINE q == [TeamIdle EXCEPT !.at = "write", !.op = op, !.org = o, !.id = i,
                                   !.email = email, !.role = role]
  <2>0. TeamIdle \in TeamQueries
    BY <1>0 DEF TeamFacts
  <2>4. TeamGo(r, q)
    BY <1>4
  <2>5. q.at = "write" /\ q.op = op /\ q.org = o /\ q.id = i /\ q.email = email
    BY <2>0 DEF TeamQueries
  <2>6. q \in TeamQueries
    BY <1>4, <2>0 DEF TeamQueries
  <2> HIDE DEF q
  <2>7. teamReq'[r] = q
    BY <1>0, <2>4 DEF TeamFacts
  <2>1. /\ TeamGo(r, q) /\ q \in TeamQueries /\ teamReq'[r].at = "write"
        /\ teamReq'[r].op = op /\ teamReq'[r].org = o /\ teamReq'[r].id = i
        /\ teamReq'[r].email = email
    BY <2>4, <2>5, <2>6, <2>7
  <2>2. op = "invite" => TeamOwned(teamReq[r].org)'
    BY <1>1, <1>4, <2>1 DEF TeamOwned
  <2>3. TeamRequestIsSound(teamReq[r])'
    BY <1>1, <1>4, <2>1, <2>2 DEF TeamRequestIsSound
  <2> QED
    BY <1>1, <2>1, <2>3, TeamGoKeepsInv
<1>5. /\ teamReq[r].org \in 0 .. TeamMaxOrgs /\ teamReq[r].org <= teamOrgs
      /\ TeamOwned(teamReq[r].org)
      /\ 0 \in 0 .. TeamMaxOrgs /\ 0 \in 0 .. TeamMaxRows /\ 0 <= teamOrgs /\ 0 <= teamIssued
      /\ 0 \notin DOMAIN teamRows
  BY <1>0, <1>1 DEF TeamFacts, TeamRequestIsSound, TeamQueries
<1>6. ASSUME NEW email \in TeamEmails, NEW role \in TeamValidRoles,
             TeamRowsOf(teamReq[r].org, email) = {},
             TeamGo(r, [TeamIdle EXCEPT !.at = "write", !.op = "invite",
                !.org = teamReq[r].org, !.id = 0, !.email = email, !.role = role])
      PROVE  TeamInv' /\ TeamKeepsRows
  <2>1. email # TeamOwner
    BY <1>5, <1>6 DEF TeamRowsOf, TeamOwned
  <2>2. PICK o \in 0 .. TeamMaxOrgs : o = teamReq[r].org
    BY <1>5
  <2>3. /\ "invite" \in TeamOps /\ email \in TeamEmails \cup {"nobody"}
        /\ o <= teamOrgs /\ TeamOwned(o)
    BY <1>5, <2>2 DEF TeamOps
  <2> QED
    BY <1>4, <1>5, <1>6, <2>1, <2>2, <2>3
<1>7. ASSUME NEW i \in DOMAIN teamRows, teamRows[i].role # "owner",
             NEW op \in {"change", "remove"}, NEW role \in TeamValidRoles,
             TeamGo(r, [TeamIdle EXCEPT !.at = "write", !.op = op, !.org = 0, !.id = i,
                                        !.email = "nobody", !.role = role])
      PROVE  TeamInv' /\ TeamKeepsRows
  <2>1. i \in 0 .. TeamMaxRows /\ i <= teamIssued /\ i # 0
    BY <1>0 DEF TeamFacts
  <2> QED
    BY <1>4, <1>5, <1>7, <2>1 DEF TeamOps
<1>8. ASSUME NEW op \in {"createKey", "revokeKey"},
             TeamGo(r, [TeamIdle EXCEPT !.at = "write", !.op = op, !.org = 0, !.id = 0,
                                        !.email = "nobody", !.role = "member"])
      PROVE  TeamInv' /\ TeamKeepsRows
  <2>1. op \in TeamOps /\ "member" \in TeamValidRoles /\ "nobody" \in TeamEmails \cup {"nobody"}
    BY DEF TeamOps, TeamValidRoles, TeamRoles
  <2> QED
    BY <1>4, <1>5, <1>8, <2>1
<1>9. CASE TeamChecked(r)
  <2> DEFINE To(op, o, i, email, role) ==
               TeamGo(r, [TeamIdle EXCEPT !.at = "write", !.op = op, !.org = o, !.id = i,
                                          !.email = email, !.role = role])
  <2>1. CASE \E email \in TeamEmails, role \in TeamValidRoles :
               /\ TeamRowsOf(teamReq[r].org, email) = {}
               /\ To("invite", teamReq[r].org, 0, email, role)
    BY <1>6, <2>1
  <2>2. CASE \E i \in DOMAIN teamRows : \E role \in TeamValidRoles :
               teamRows[i].role # "owner" /\ To("change", 0, i, "nobody", role)
    BY <1>7, <2>2
  <2>3. CASE \E i \in DOMAIN teamRows :
               teamRows[i].role # "owner" /\ To("remove", 0, i, "nobody", "member")
    BY <1>7, <2>3 DEF TeamValidRoles, TeamRoles
  <2>4. CASE \E op \in {"createKey", "revokeKey"} : To(op, 0, 0, "nobody", "member")
    BY <1>8, <2>4
  <2> HIDE DEF To
  <2>5. \/ \E email \in TeamEmails, role \in TeamValidRoles :
             /\ TeamRowsOf(teamReq[r].org, email) = {}
             /\ To("invite", teamReq[r].org, 0, email, role)
        \/ \E i \in DOMAIN teamRows : \E role \in TeamValidRoles :
             teamRows[i].role # "owner" /\ To("change", 0, i, "nobody", role)
        \/ \E i \in DOMAIN teamRows :
             teamRows[i].role # "owner" /\ To("remove", 0, i, "nobody", "member")
        \/ \E op \in {"createKey", "revokeKey"} : To(op, 0, 0, "nobody", "member")
    BY <1>9 DEF TeamChecked, To, TeamMayChange, TeamMayRemove
  <2> QED
    BY <2>1, <2>2, <2>3, <2>4, <2>5
<1> QED
  BY <1>3, <1>9 DEF TeamCheck

\* A request whose write is done goes on to the log.
LEMMA TeamLogsWhatIsDone ==
  ASSUME TeamInv, NEW r \in TeamRequests, NEW op \in TeamOps, NEW i \in 0 .. TeamMaxRows,
         TeamToLog(r, op, i), TeamKeepsRows, TeamKeepsLog,
         i <= teamIssued', op \in {"invite", "change", "remove"} => i # 0,
         op = "remove" => i \notin DOMAIN teamRows', op = "revokeKey" => teamKey' = "revoked"
  PROVE  TeamInv'
<1>0. TeamFacts(r)
  BY TeamQuery
<1> DEFINE q == [TeamIdle EXCEPT !.at = "log", !.op = op, !.id = i]
<1>1. /\ TeamGo(r, q) /\ q \in TeamQueries /\ teamReq'[r].at = "log"
      /\ teamReq'[r].op = op /\ teamReq'[r].org = 0 /\ teamReq'[r].id = i
  <2>1. TeamIdle \in TeamQueries /\ TeamIdle.org = 0
    BY <1>0 DEF TeamFacts
  <2>2. q.at = "log" /\ q.op = op /\ q.org = 0 /\ q.id = i
    BY <2>1 DEF TeamQueries
  <2>3. q \in TeamQueries
    BY <2>1 DEF TeamQueries
  <2>4. TeamGo(r, q)
    BY DEF TeamToLog
  <2> HIDE DEF q
  <2>5. teamReq'[r] = q
    BY <1>0, <2>4 DEF TeamFacts
  <2> QED
    BY <2>2, <2>3, <2>4, <2>5
<1> HIDE DEF q
<1>2. 0 <= teamOrgs'
  BY <1>0 DEF TeamFacts, TeamKeepsRows
<1>3. TeamRequestIsSound(teamReq[r])'
  BY <1>1, <1>2 DEF TeamRequestIsSound
<1> QED
  BY <1>1, <1>3, TeamKeepsInv

\* The writes: a guest's row, or a key.
LEMMA TeamWriteKeepsInv ==
  ASSUME TeamInv, NEW r \in TeamRequests,
         TeamInvite(r) \/ TeamChangeRole(r) \/ TeamRemove(r) \/ TeamCreateKey(r)
           \/ TeamRevokeKey(r)
  PROVE  TeamInv' /\ TeamKeepsRows
<1>0. TeamFacts(r)
  BY TeamQuery
<1>1. PICK i \in 0 .. TeamMaxRows : i = teamReq[r].id
  BY <1>0 DEF TeamFacts, TeamQueries
<1>2. /\ teamReq[r].at = "write" /\ teamOrgs' = teamOrgs /\ teamOrgs' \in teamOrgs .. TeamMaxOrgs
      /\ i <= teamIssued
      /\ i \in DOMAIN teamRows => teamRows[i].role # "owner"
  BY <1>0, <1>1
  DEF TeamInvite, TeamChangeRole, TeamRemove, TeamCreateKey, TeamRevokeKey, TeamFacts,
      TeamRequestIsSound
<1>3. CASE TeamInvite(r)
  <2>1. PICK o \in 1 .. teamOrgs, email \in TeamEmails \ {TeamOwner}, role \in TeamValidRoles :
          o = teamReq[r].org /\ email = teamReq[r].email /\ role = teamReq[r].role
          /\ TeamOwned(o)
    <3>1. TeamOwned(teamReq[r].org) /\ teamReq[r].email \in TeamEmails \ {TeamOwner}
      BY <1>0, <1>3 DEF TeamFacts, TeamRequestIsSound, TeamInvite
    <3>2. teamReq[r].org \in 1 .. teamOrgs
      BY <1>0, <3>1 DEF TeamFacts, TeamOwned
    <3>3. teamReq[r].role \in TeamValidRoles
      BY <1>0 DEF TeamFacts, TeamQueries
    <3> QED
      BY <3>1, <3>2, <3>3
  <2>2. /\ TeamInsertRow(o, email, role) /\ UNCHANGED <<teamOrgs, teamKey, teamLog>>
        /\ TeamToLog(r, "invite", teamIssued + 1)
    BY <1>3, <2>1 DEF TeamInvite
  <2>3. TeamKeepsRows /\ teamIssued' = teamIssued + 1
    BY <2>1, <2>2, TeamInserts DEF TeamValidRoles
  <2>4. teamIssued + 1 \in 0 .. TeamMaxRows /\ teamIssued + 1 # 0 /\ teamIssued + 1 <= teamIssued'
    BY <1>0, <2>3 DEF TeamFacts, TeamKeepsRows
  <2>5. TeamKeepsLog
    BY <2>2, TeamSameLog
  <2> QED
    BY <2>2, <2>3, <2>4, <2>5, TeamLogsWhatIsDone DEF TeamOps
<1>4. CASE TeamChangeRole(r)
  <2>1. PICK role \in TeamValidRoles : role = teamReq[r].role
    BY <1>0 DEF TeamFacts, TeamQueries
  <2>2. /\ TeamUpdateRole(i, role) /\ UNCHANGED <<teamOrgs, teamIssued, teamKey, teamLog>>
        /\ TeamToLog(r, "change", i)
    BY <1>1, <1>4, <2>1 DEF TeamChangeRole
  <2>3. /\ DOMAIN teamRows' = DOMAIN teamRows
        /\ \A j \in DOMAIN teamRows :
             /\ teamRows'[j].org = teamRows[j].org /\ teamRows'[j].email = teamRows[j].email
             /\ teamRows'[j].role = IF j = i THEN role ELSE teamRows[j].role
             /\ teamRows'[j] \in [org : 1 .. teamOrgs', email : TeamEmails, role : TeamRoles]
    BY <2>1, <2>2 DEF TeamUpdateRole, TeamInv, TeamTypeOK, TeamValidRoles
  <2>4. \A j \in DOMAIN teamRows : TeamRowIsKept(j)
    BY <1>2, <2>3 DEF TeamRowIsKept, TeamValidRoles
  <2>5. TeamKeepsRows
    BY <1>0, <1>2, <2>2, <2>3, <2>4 DEF TeamKeepsRows, TeamFacts
  <2>6. i # 0
    BY <1>0, <1>1, <1>4 DEF TeamFacts, TeamRequestIsSound, TeamChangeRole
  <2>7. TeamKeepsLog
    BY <2>2, TeamSameLog
  <2> QED
    BY <1>2, <2>2, <2>5, <2>6, <2>7, TeamLogsWhatIsDone DEF TeamOps
<1>5. CASE TeamRemove(r)
  <2>1. /\ teamRows' = [j \in DOMAIN teamRows \ {i} |-> teamRows[j]]
        /\ UNCHANGED <<teamOrgs, teamIssued, teamKey, teamLog>> /\ TeamToLog(r, "remove", i)
    BY <1>1, <1>5 DEF TeamRemove
  <2>2. /\ DOMAIN teamRows' = DOMAIN teamRows \ {i}
        /\ \A j \in DOMAIN teamRows \ {i} : teamRows'[j] = teamRows[j]
    BY <2>1
  <2>3. \A j \in DOMAIN teamRows' : TeamRowIsKept(j)
             /\ teamRows'[j] \in [org : 1 .. teamOrgs', email : TeamEmails, role : TeamRoles]
    BY <1>2, <2>2 DEF TeamRowIsKept, TeamInv, TeamTypeOK
  <2>4. TeamKeepsRows
    BY <1>0, <1>2, <2>1, <2>2, <2>3 DEF TeamKeepsRows, TeamFacts
  <2>5. i # 0
    BY <1>0, <1>1, <1>5 DEF TeamFacts, TeamRequestIsSound, TeamRemove
  <2>6. TeamKeepsLog
    BY <2>1, TeamSameLog
  <2> QED
    BY <1>2, <2>1, <2>2, <2>4, <2>5, <2>6, TeamLogsWhatIsDone DEF TeamOps
<1>6. CASE TeamCreateKey(r) \/ TeamRevokeKey(r)
  <2>1. PICK op \in {"createKey", "revokeKey"} :
          /\ TeamToLog(r, op, i) /\ UNCHANGED <<teamOrgs, teamRows, teamIssued, teamLog>>
          /\ teamKey' \in {"live", "revoked"}
          /\ teamKey = "revoked" => teamKey' = "revoked"
          /\ op = "revokeKey" => teamKey' = "revoked"
    BY <1>1, <1>6 DEF TeamCreateKey, TeamRevokeKey
  <2>2. TeamKeepsRows
    BY <1>2, <2>1, TeamSameRows
  <2>3. TeamKeepsLog
    BY <2>1 DEF TeamKeepsLog
  <2> QED
    BY <1>2, <2>1, <2>2, <2>3, TeamLogsWhatIsDone DEF TeamOps
<1> QED
  BY <1>3, <1>4, <1>5, <1>6

\* What a request logs, it has done.
LEMMA TeamLogKeepsInv ==
  ASSUME TeamInv, NEW r \in TeamRequests, TeamAppendAudit(r)
  PROVE  TeamInv' /\ TeamKeepsRows
<1>0. TeamFacts(r)
  BY TeamQuery
<1>1. /\ teamReq[r].at = "log" /\ UNCHANGED <<teamOrgs, teamRows, teamIssued, teamKey>>
      /\ teamLog' = teamLog \cup {[op |-> teamReq[r].op, id |-> teamReq[r].id]}
      /\ TeamDone(r)
  BY DEF TeamAppendAudit
<1>2. PICK i \in 0 .. teamIssued, op \in TeamOps \cup {"denied"} :
        i = teamReq[r].id /\ op = teamReq[r].op
  <2>1. teamReq[r].id \in 0 .. TeamMaxRows
    BY <1>0 DEF TeamFacts, TeamQueries
  <2> QED
    BY <1>0, <1>1, <2>1 DEF TeamFacts, TeamRequestIsSound
<1>3. TeamEntryIsTrue([op |-> op, id |-> i])
  BY <1>0, <1>1, <1>2 DEF TeamFacts, TeamRequestIsSound, TeamEntryIsTrue
<1>4. TeamKeepsLog
  BY <1>1, <1>2, <1>3 DEF TeamKeepsLog, TeamInv, TeamTypeOK
<1>5. TeamKeepsRows
  BY <1>0, <1>1, TeamSameRows DEF TeamFacts
<1>6. TeamRequestIsSound(teamReq[r])'
  BY <1>0, <1>1, TeamIdles DEF TeamFacts
<1>7. TeamIdle \in TeamQueries /\ TeamGo(r, TeamIdle)
  BY <1>0, <1>1 DEF TeamFacts, TeamDone
<1> QED
  BY <1>4, <1>5, <1>6, <1>7, TeamKeepsInv

\* Every step of the teams.
LEMMA TeamInvNext ==
  TeamInv /\ [TeamNext]_teamVars => TeamInv' /\ TeamKeepsRows
<1> SUFFICES ASSUME TeamInv, [TeamNext]_teamVars PROVE TeamInv' /\ TeamKeepsRows
  OBVIOUS
<1>1. ASSUME NEW r \in TeamRequests, TeamStep(r) PROVE TeamInv' /\ TeamKeepsRows
  BY <1>1, TeamLookupKeepsInv, TeamOwnerKeepsInv, TeamCheckKeepsInv, TeamWriteKeepsInv,
     TeamLogKeepsInv DEF TeamStep
<1>2. CASE UNCHANGED teamVars
  <2>1. TeamInv'
    BY <1>2 DEF teamVars, TeamInv, TeamTypeOK, TeamOwnersRank, TeamRequestIsSound,
      TeamOwned, MembersHaveAnOwner, AuditIsTrue
  <2>2. TeamKeepsRows
    <3>1. teamOrgs' \in teamOrgs .. TeamMaxOrgs
      BY <1>2, TeamAssumption DEF teamVars, TeamAssumption, TeamInv, TeamTypeOK
    <3> QED
      BY <1>2, <3>1, TeamSameRows DEF teamVars
  <2> QED
    BY <2>1, <2>2
<1> HIDE DEF TeamInv
<1>3. CASE TeamNext
  BY <1>1, <1>3 DEF TeamNext
<1> QED
  BY <1>2, <1>3

\* Whatever the requests interleave and wherever they die, an organisation with members
\* has its owner, and the audit log tells only of what happened.
THEOREM TeamKeepsOwnerAndLog ==
  TeamSpec => [](TeamTypeOK /\ MembersHaveAnOwner /\ AuditIsTrue)
<1>1. TeamInv => TeamTypeOK /\ MembersHaveAnOwner /\ AuditIsTrue
  BY DEF TeamInv
<1> QED
  BY <1>1, TeamInvInit, TeamInvNext, PTL DEF TeamSpec

\* No step demotes or removes an owner.
THEOREM TeamOwnersStay == TeamSpec => OwnersStay
<1> DEFINE Stays == \A i \in DOMAIN teamRows : teamRows[i].role = "owner" =>
                      i \in DOMAIN teamRows' /\ teamRows'[i].role = "owner"
<1>1. TeamInv /\ [TeamNext]_teamVars => [Stays]_teamVars
  BY TeamInvNext DEF TeamKeepsRows, TeamRowIsKept
<1> QED
  BY <1>1, TeamInvInit, TeamInvNext, PTL DEF TeamSpec, OwnersStay

-------------------------------------------------------------------------------
(* The playground. *)

\* A turn that is open and was not aborted is the one that the page waits for.
PlayAwaited(t) == playTurn[t].open /\ ~playTurn[t].aborted

\* The arrays are numbered as they are made; an agent has one from its making on, and
\* a run has its agent, and while it adds the array in hand.
PlayArraysAre ==
  /\ \E n \in 0 .. PlayMaxCarts : DOMAIN playItems = 1 .. n
  /\ \A s \in PlayTurns : playSessions[s] # 0 => playCart[playSessions[s]] # 0
  /\ \A t \in PlayTurns :
       /\ playTurn[t].at \in {"running", "adding"} =>
            playTurn[t].agent # 0 /\ playCart[playTurn[t].agent] # 0
       /\ playTurn[t].at = "adding" => playTurn[t].held # 0
       /\ playTurn[t].held \in DOMAIN playItems \cup {0}
       /\ playTurn[t].at \in {"creating", "running", "adding"}
            \/ (playTurn[t].at = "ended" /\ playTurn[t].open) => playTurn[t].session # 0

\* The page awaits one turn at most, which is the one that it shows to be running.  A
\* turn that was not sent is as it was made, and one that goes on unseen was aborted.
PlayAwaitsOne ==
  /\ \A t, u \in PlayTurns : PlayAwaited(t) /\ PlayAwaited(u) => t = u
  /\ \A t \in PlayTurns :
       /\ playTurn[t].at = "unsent" => ~playTurn[t].open /\ ~playTurn[t].aborted
                                         /\ ~playTurn[t].told
       /\ playTurn[t].at \in {"sent", "creating", "running", "adding"} =>
            playTurn[t].open \/ playTurn[t].aborted
       /\ playTurn[t].told /\ ~playTurn[t].aborted => playTurn[t].open

\* The session the page has is that of the turn it awaits, which told it, unless it
\* has none yet.
PlaySessionIsTurns ==
  \A t \in PlayTurns : PlayAwaited(t) =>
    /\ playPage.session # 0 => playTurn[t].session = playPage.session
    /\ playTurn[t].told => playPage.session # 0

\* While no session timed out, the agent of a run is the one of its session, the page's
\* session has one, and a turn that comes to make one is the first of its session.
PlaySessionsLast ==
  /\ playPage.session # 0 => playSessions[playPage.session] # 0
  /\ playPage.shown # 0 => playPage.session # 0
                             /\ playSessions[playPage.session] = playPage.shown
  /\ \A t \in PlayTurns :
       /\ playTurn[t].at \in {"unsent", "sent", "creating"} => playSessions[t] = 0
       /\ playTurn[t].at = "sent" /\ playTurn[t].session # 0 =>
            playSessions[playTurn[t].session] # 0
       /\ playTurn[t].at = "creating" => playTurn[t].session = t
       /\ playTurn[t].at \in {"running", "adding"}
            \/ (playTurn[t].at = "ended" /\ playTurn[t].open) =>
            /\ playSessions[playTurn[t].session] = playTurn[t].agent
            /\ playTurn[t].agent # 0

PlayInv ==
  /\ PlayTypeOK /\ PlayArraysAre /\ PlayAwaitsOne /\ PlaySessionIsTurns
  /\ playExpiries = 0 => PlaySessionsLast
  /\ RunningIsShown

PlayTurnStates ==
  [at : {"unsent", "sent", "creating", "running", "adding", "ended"},
   open : BOOLEAN, aborted : BOOLEAN, told : BOOLEAN,
   session : PlayIds, agent : PlayIds, held : 0 .. PlayMaxCarts, due : 0 .. PlayMaxItems]

PlayPages ==
  [session : PlayIds, running : BOOLEAN, shown : PlayIds, items : 0 .. PlayMaxItems]

\* Nothing was sent yet.
LEMMA PlayInvInit == PlayInit => PlayInv
<1> SUFFICES ASSUME PlayInit PROVE PlayInv
  OBVIOUS
<1>1. /\ DOMAIN playItems = {} /\ DOMAIN playItems = 1 .. 0
      /\ 0 \in 0 .. PlayMaxCarts /\ 0 \in 0 .. PlayMaxItems
  BY PlayAssumption DEF PlayInit, PlayAssumption
<1>2. \A t \in PlayTurns : playTurn[t] = PlayUnsent
  BY DEF PlayInit
<1>3. /\ PlayUnsent.at = "unsent" /\ ~PlayUnsent.open /\ ~PlayUnsent.aborted
      /\ ~PlayUnsent.told /\ PlayUnsent.session = 0 /\ PlayUnsent.held = 0
      /\ PlayUnsent \in PlayTurnStates
  BY <1>1 DEF PlayUnsent, PlayTurnStates, PlayIds
<1>4. PlayTypeOK
  BY <1>1, <1>3, PlayAssumption DEF PlayInit, PlayTypeOK, PlayPages, PlayAssumption, PlayIds, PlayTurnStates
<1>5. PlayArraysAre
  BY <1>1, <1>2, <1>3 DEF PlayInit, PlayArraysAre
<1>6. PlayAwaitsOne /\ PlaySessionIsTurns /\ RunningIsShown
  BY <1>2, <1>3 DEF PlayInit, PlayAwaitsOne, PlayAwaited, PlaySessionIsTurns, RunningIsShown
<1>7. PlaySessionsLast
  BY <1>2, <1>3 DEF PlayInit, PlaySessionsLast
<1> QED
  BY <1>4, <1>5, <1>6, <1>7 DEF PlayInv

\* The turns, by their fields.
LEMMA PlayTurnFields ==
  ASSUME PlayInv, NEW t \in PlayTurns
  PROVE  /\ playTurn \in [PlayTurns -> PlayTurnStates] /\ playTurn[t] \in PlayTurnStates
         /\ playPage \in PlayPages
BY DEF PlayInv, PlayTypeOK, PlayPages, PlayTurnStates

\* 0 stands for no turn.
LEMMA PlayZeroIsNoTurn == 0 \notin PlayTurns
<1>1. PICK n : n = Cardinality(PlayTurns)
  OBVIOUS
<1>2. PlayTurns = 1 .. n
  BY <1>1, PlayAssumption DEF PlayAssumption
<1> QED
  BY <1>2

\* A turn that is over, and one that was not sent, are turns.
LEMMA PlayOverIsTurn ==
  PlayUnsent \in PlayTurnStates /\ \A turn \in PlayTurnStates : PlayOver(turn) \in PlayTurnStates
<1>1. 0 \in 0 .. PlayMaxCarts /\ 0 \in 0 .. PlayMaxItems
  BY PlayAssumption DEF PlayAssumption
<1>2. PlayUnsent \in PlayTurnStates
  BY <1>1 DEF PlayUnsent, PlayTurnStates, PlayIds
<1>3. ASSUME NEW turn \in PlayTurnStates PROVE PlayOver(turn) \in PlayTurnStates
  BY <1>2 DEF PlayOver, PlayTurnStates
<1> QED
  BY <1>2, <1>3

\* Aborting is marked on the turns that are open.
LEMMA PlayAborts ==
  ASSUME PlayInv
  PROVE  /\ PlayAborted(playTurn) \in [PlayTurns -> PlayTurnStates]
         /\ \A u \in PlayTurns : PlayAborted(playTurn)[u] =
              [playTurn[u] EXCEPT !.aborted = playTurn[u].aborted \/ playTurn[u].open, !.due = 0]
<1>1. \A u \in PlayTurns : playTurn[u] \in PlayTurnStates
  BY PlayTurnFields
<1>2. \A u \in PlayTurns : PlayAborted(playTurn)[u] =
         [playTurn[u] EXCEPT !.aborted = playTurn[u].aborted \/ playTurn[u].open, !.due = 0]
  BY <1>1 DEF PlayAborted
<1>3. ASSUME NEW turn \in PlayTurnStates, NEW b \in BOOLEAN
      PROVE  [turn EXCEPT !.aborted = b, !.due = 0] \in PlayTurnStates
  <2>1. 0 \in 0 .. PlayMaxItems
    BY PlayAssumption DEF PlayAssumption
  <2> QED
    BY <2>1 DEF PlayTurnStates
<1>4. \A u \in PlayTurns : (playTurn[u].aborted \/ playTurn[u].open) \in BOOLEAN
  OBVIOUS
<1>5. PlayAborted(playTurn) \in [PlayTurns -> PlayTurnStates]
  BY <1>1, <1>3, <1>4 DEF PlayAborted
<1> QED
  BY <1>2, <1>5

\* The page sends its next turn.
LEMMA PlaySendKeepsInv ==
  ASSUME PlayInv, NEW t \in PlayTurns, PlaySend(t)
  PROVE  PlayInv'
<1>1. /\ UNCHANGED <<playSessions, playCart, playItems, playExpiries, playLast>>
      /\ playTurn[t].at = "unsent" /\ ~playPage.running
      /\ playPage'.session = playPage.session /\ playPage'.shown = playPage.shown
      /\ playPage'.running = TRUE
      /\ playPage' \in PlayPages
  BY PlayTurnFields DEF PlaySend, PlayPages
<1>2. ASSUME NEW u \in PlayTurns, u # t
      PROVE  /\ playTurn'[u].at = playTurn[u].at /\ playTurn'[u].open = playTurn[u].open
             /\ playTurn'[u].told = playTurn[u].told
             /\ playTurn'[u].session = playTurn[u].session
             /\ playTurn'[u].agent = playTurn[u].agent /\ playTurn'[u].held = playTurn[u].held
             /\ playTurn'[u].aborted = (playTurn[u].aborted \/ playTurn[u].open)
  BY <1>2, PlayTurnFields DEF PlaySend, PlayAborted, PlayTurnStates
<1>3. /\ playTurn'[t].at = "sent" /\ playTurn'[t].open = TRUE
      /\ playTurn'[t].aborted = FALSE
      /\ playTurn'[t].told = FALSE /\ playTurn'[t].session = playPage.session
      /\ playTurn'[t].held = playTurn[t].held
  BY <1>1, PlayTurnFields DEF PlaySend, PlayAborted, PlayTurnStates, PlayInv, PlayAwaitsOne
<1>4. playTurn' \in [PlayTurns -> PlayTurnStates]
  <2> DEFINE q == [playTurn[t] EXCEPT !.at = "sent", !.open = TRUE,
                                     !.session = playPage.session]
  <2>1. q \in PlayTurnStates
    BY PlayTurnFields DEF PlayTurnStates, PlayPages
  <2>2. playTurn' = [PlayAborted(playTurn) EXCEPT ![t] = q]
    BY DEF PlaySend
  <2> HIDE DEF q
  <2> QED
    BY <2>1, <2>2, PlayAborts
<1>5. PlayTypeOK'
  BY <1>1, <1>4 DEF PlayInv, PlayTypeOK, PlayPages, PlayTurnStates
<1>6. PlayArraysAre'
  BY <1>1, <1>2, <1>3 DEF PlayInv, PlayArraysAre
<1>7. PlayAwaitsOne'
  <2>1. ASSUME NEW u \in PlayTurns, u # t PROVE ~PlayAwaited(u)'
    BY <1>2, <2>1 DEF PlayAwaited
  <2>2. \A u, v \in PlayTurns : PlayAwaited(u)' /\ PlayAwaited(v)' => u = v
    BY <2>1
  <2>3. ASSUME NEW u \in PlayTurns, u # t
        PROVE  /\ playTurn'[u].at = "unsent" => ~playTurn'[u].open /\ ~playTurn'[u].aborted
                                                  /\ ~playTurn'[u].told
               /\ playTurn'[u].at \in {"sent", "creating", "running", "adding"} =>
                    playTurn'[u].open \/ playTurn'[u].aborted
               /\ playTurn'[u].told /\ ~playTurn'[u].aborted => playTurn'[u].open
    <3>1. /\ playTurn[u].at = "unsent" => ~playTurn[u].open /\ ~playTurn[u].aborted
                                            /\ ~playTurn[u].told
          /\ playTurn[u].at \in {"sent", "creating", "running", "adding"} =>
               playTurn[u].open \/ playTurn[u].aborted
          /\ playTurn[u].told /\ ~playTurn[u].aborted => playTurn[u].open
      BY DEF PlayInv, PlayAwaitsOne
    <3> QED
      BY <1>2, <2>3, <3>1
  <2> QED
    BY <1>3, <2>2, <2>3 DEF PlayAwaitsOne
<1>8. PlaySessionIsTurns'
  BY <1>1, <1>2, <1>3 DEF PlayInv, PlaySessionIsTurns, PlayAwaited
<1>9. RunningIsShown'
  BY <1>1, <1>3 DEF RunningIsShown
<1>10. playExpiries' = 0 => PlaySessionsLast'
  BY <1>1, <1>2, <1>3 DEF PlayInv, PlaySessionsLast
<1> QED
  BY <1>5, <1>6, <1>7, <1>8, <1>9, <1>10 DEF PlayInv

\* Stop and a new chat abort every turn that is open.
LEMMA PlayStopKeepsInv ==
  ASSUME PlayInv, PlayStop \/ PlayNewChat
  PROVE  PlayInv'
<1>1. /\ UNCHANGED <<playSessions, playCart, playItems, playExpiries, playLast>>
      /\ playPage' \in PlayPages
      /\ playPage'.running = FALSE
      /\ \/ playPage'.session = playPage.session /\ playPage'.shown = playPage.shown
         \/ playPage'.session = 0 /\ playPage'.shown = 0
  <2>1. playPage \in PlayPages
    BY DEF PlayInv, PlayTypeOK, PlayPages
  <2>2. CASE PlayStop
    BY <2>1, <2>2 DEF PlayStop, PlayPages
  <2>3. CASE PlayNewChat
    BY <2>3, PlayAssumption DEF PlayNewChat, PlayIds, PlayPages, PlayAssumption
  <2> QED
    BY <2>2, <2>3
<1>2. ASSUME NEW u \in PlayTurns
      PROVE  /\ playTurn'[u].at = playTurn[u].at /\ playTurn'[u].open = playTurn[u].open
             /\ playTurn'[u].told = playTurn[u].told
             /\ playTurn'[u].session = playTurn[u].session
             /\ playTurn'[u].agent = playTurn[u].agent /\ playTurn'[u].held = playTurn[u].held
             /\ playTurn'[u].aborted = (playTurn[u].aborted \/ playTurn[u].open)
  <2>1. playTurn' = PlayAborted(playTurn)
    BY DEF PlayStop, PlayNewChat
  <2>2. playTurn'[u] =
          [playTurn[u] EXCEPT !.aborted = playTurn[u].aborted \/ playTurn[u].open, !.due = 0]
    BY <2>1, PlayAborts
  <2> QED
    BY <2>2, PlayTurnFields DEF PlayTurnStates
<1>3. playTurn' \in [PlayTurns -> PlayTurnStates]
  BY PlayAborts DEF PlayStop, PlayNewChat
<1>4. PlayTypeOK'
  BY <1>1, <1>3 DEF PlayInv, PlayTypeOK, PlayPages, PlayTurnStates
<1>5. PlayArraysAre'
  BY <1>1, <1>2 DEF PlayInv, PlayArraysAre
<1>6. PlayAwaitsOne'
  BY <1>2 DEF PlayInv, PlayAwaitsOne, PlayAwaited
<1>7. PlaySessionIsTurns' /\ RunningIsShown'
  BY <1>1, <1>2 DEF PlaySessionIsTurns, PlayAwaited, RunningIsShown
<1>8. playExpiries' = 0 => PlaySessionsLast'
  BY <1>1, <1>2 DEF PlayInv, PlaySessionsLast
<1> QED
  BY <1>4, <1>5, <1>6, <1>7, <1>8 DEF PlayInv

\* The stream tells the page its session.
LEMMA PlayToldKeepsInv ==
  ASSUME PlayInv, NEW t \in PlayTurns, PlayTold(t)
  PROVE  PlayInv'
<1>0. PICK s \in PlayIds : s = playTurn[t].session
  BY PlayTurnFields DEF PlayTurnStates
<1>1. /\ UNCHANGED <<playSessions, playCart, playItems, playExpiries, playLast>>
      /\ playTurn[t].at \in {"running", "adding", "ended"}
      /\ playTurn[t].open /\ ~playTurn[t].told /\ ~playTurn[t].aborted
      /\ playPage'.session = s /\ playPage'.shown = playPage.shown
      /\ playPage'.running = playPage.running
      /\ playPage' \in PlayPages
  BY <1>0, PlayTurnFields DEF PlayTold, PlayPages
<1>2. ASSUME NEW u \in PlayTurns, u # t PROVE playTurn'[u] = playTurn[u]
  BY <1>2, PlayTurnFields DEF PlayTold, PlaySet
<1>3. /\ playTurn'[t].at = playTurn[t].at /\ playTurn'[t].open = playTurn[t].open
      /\ playTurn'[t].aborted = playTurn[t].aborted /\ playTurn'[t].told = TRUE
      /\ playTurn'[t].session = playTurn[t].session
      /\ playTurn'[t].agent = playTurn[t].agent /\ playTurn'[t].held = playTurn[t].held
      /\ playTurn' \in [PlayTurns -> PlayTurnStates]
  <2>1. [playTurn[t] EXCEPT !.told = TRUE] \in PlayTurnStates
    BY PlayTurnFields DEF PlayTurnStates
  <2> QED
    BY <2>1, PlayTurnFields DEF PlayTold, PlaySet, PlayTurnStates
<1>4. \A u \in PlayTurns : PlayAwaited(u) => u = t
  BY <1>1 DEF PlayInv, PlayAwaitsOne, PlayAwaited
<1>5. s # 0
  BY <1>0, <1>1 DEF PlayInv, PlayArraysAre
<1>6. PlayTypeOK'
  BY <1>1, <1>3 DEF PlayInv, PlayTypeOK, PlayPages, PlayTurnStates
<1>7. PlayArraysAre'
  BY <1>1, <1>2, <1>3 DEF PlayInv, PlayArraysAre
<1>8. PlayAwaitsOne'
  BY <1>1, <1>2, <1>3 DEF PlayInv, PlayAwaitsOne, PlayAwaited
<1>9. PlaySessionIsTurns'
  BY <1>0, <1>1, <1>2, <1>3, <1>4, <1>5 DEF PlayInv, PlaySessionIsTurns, PlayAwaited
<1>10. RunningIsShown'
  BY <1>1, <1>2, <1>3 DEF PlayInv, RunningIsShown
<1>11. playExpiries' = 0 => PlaySessionsLast'
  <2>1. playPage.session # 0 => s = playPage.session
    BY <1>0, <1>1 DEF PlayInv, PlaySessionIsTurns, PlayAwaited
  <2> QED
    BY <1>0, <1>1, <1>2, <1>3, <1>5, <2>1 DEF PlayInv, PlaySessionsLast
<1> QED
  BY <1>6, <1>7, <1>8, <1>9, <1>10, <1>11 DEF PlayInv

\* The page no longer awaits a turn that was open.
LEMMA PlayLeaveKeepsInv ==
  ASSUME PlayInv, NEW t \in PlayTurns, NEW q \in PlayTurnStates, PlaySet(t, q),
         UNCHANGED <<playSessions, playCart, playItems, playExpiries, playLast>>,
         playTurn[t].open, ~q.open,
         \/ q.at = "ended" /\ ~q.told /\ q.held = 0
         \/ /\ q.at = playTurn[t].at /\ q.at # "ended" /\ q.aborted
            /\ q.session = playTurn[t].session
            /\ q.agent = playTurn[t].agent /\ q.held = playTurn[t].held,
         playPage' \in PlayPages,
         playPage'.session = playPage.session, playPage'.shown = playPage.shown,
         playPage'.running = (playTurn[t].aborted /\ playPage.running)
  PROVE  PlayInv'
<1>1. playTurn[t].aborted \in BOOLEAN /\ q.open = FALSE /\ playTurn[t].at # "unsent"
  BY PlayTurnFields DEF PlayTurnStates, PlayInv, PlayAwaitsOne
<1>2. ASSUME NEW u \in PlayTurns, u # t PROVE playTurn'[u] = playTurn[u]
  BY <1>2, PlayTurnFields DEF PlaySet
<1>3. playTurn'[t] = q /\ playTurn' \in [PlayTurns -> PlayTurnStates]
  BY PlayTurnFields DEF PlaySet
<1>4. ~playTurn[t].aborted => \A u \in PlayTurns : PlayAwaited(u) => u = t
  BY <1>1 DEF PlayInv, PlayAwaitsOne, PlayAwaited
<1>5. PlayTypeOK'
  BY <1>1, <1>3 DEF PlayInv, PlayTypeOK, PlayPages, PlayTurnStates
<1>6. PlayArraysAre'
  BY <1>1, <1>2, <1>3 DEF PlayInv, PlayArraysAre
<1>7. PlayAwaitsOne'
  BY <1>1, <1>2, <1>3 DEF PlayInv, PlayAwaitsOne, PlayAwaited
<1>8. PlaySessionIsTurns'
  BY <1>1, <1>2, <1>3 DEF PlayInv, PlaySessionIsTurns, PlayAwaited
<1>9. RunningIsShown'
  BY <1>1, <1>2, <1>3, <1>4 DEF PlayInv, RunningIsShown, PlayAwaited
<1>10. playExpiries' = 0 => PlaySessionsLast'
  BY <1>1, <1>2, <1>3 DEF PlayInv, PlaySessionsLast
<1> QED
  BY <1>5, <1>6, <1>7, <1>8, <1>9, <1>10 DEF PlayInv

\* What is left of a turn: nothing if its run is over.
LEMMA PlayLeftIsTurn ==
  ASSUME NEW turn \in PlayTurnStates
  PROVE  /\ PlayLeft(turn) \in PlayTurnStates /\ ~PlayLeft(turn).open
         /\ PlayLeft(turn).at = turn.at /\ PlayLeft(turn).aborted = turn.aborted
         /\ turn.at = "ended" =>
              /\ ~PlayLeft(turn).told /\ PlayLeft(turn).held = 0 /\ PlayLeft(turn).due = 0
         /\ turn.at # "ended" =>
              /\ PlayLeft(turn).told = turn.told /\ PlayLeft(turn).due = turn.due
              /\ PlayLeft(turn).session = turn.session
              /\ PlayLeft(turn).agent = turn.agent /\ PlayLeft(turn).held = turn.held
<1>1. CASE turn.at = "ended"
  BY <1>1, PlayOverIsTurn DEF PlayLeft, PlayOver, PlayUnsent
<1>2. CASE turn.at # "ended"
  BY <1>2 DEF PlayLeft, PlayTurnStates
<1> QED
  BY <1>1, <1>2

\* A stream is over.
LEMMA PlayCloseKeepsInv ==
  ASSUME PlayInv, NEW t \in PlayTurns, PlayClose(t)
  PROVE  PlayInv'
<1>1. /\ UNCHANGED <<playSessions, playCart, playItems, playExpiries, playLast>>
      /\ playTurn[t].open /\ PlaySet(t, PlayLeft(playTurn[t]))
      /\ playTurn[t].aborted \/ playTurn[t].at = "ended"
      /\ playPage'.session = playPage.session /\ playPage'.shown = playPage.shown
      /\ playPage'.running = (playTurn[t].aborted /\ playPage.running)
      /\ playPage' \in PlayPages
  <2>1. playTurn[t].aborted \in BOOLEAN
    BY PlayTurnFields DEF PlayTurnStates
  <2> QED
    BY <2>1, PlayTurnFields DEF PlayClose, PlayStillRuns, PlayPages
<1>2. playTurn[t] \in PlayTurnStates
  BY PlayTurnFields
<1> QED
  BY <1>1, <1>2, PlayLeftIsTurn, PlayLeaveKeepsInv

\* A request that failed: a turn that the page gave up.
LEMMA PlayFailedIsTurn ==
  ASSUME NEW turn \in PlayTurnStates
  PROVE  /\ [turn EXCEPT !.aborted = TRUE, !.due = 0] \in PlayTurnStates
         /\ [turn EXCEPT !.aborted = TRUE, !.due = 0].at = turn.at
         /\ [turn EXCEPT !.aborted = TRUE, !.due = 0].aborted
         /\ [turn EXCEPT !.aborted = TRUE, !.due = 0].due = 0
         /\ [turn EXCEPT !.aborted = TRUE, !.due = 0].session = turn.session
         /\ [turn EXCEPT !.aborted = TRUE, !.due = 0].agent = turn.agent
         /\ [turn EXCEPT !.aborted = TRUE, !.due = 0].held = turn.held
<1>1. [turn EXCEPT !.aborted = TRUE, !.due = 0] \in PlayTurnStates
  <2>1. 0 \in 0 .. PlayMaxItems
    BY PlayAssumption DEF PlayAssumption
  <2> QED
    BY <2>1 DEF PlayTurnStates
<1>2. /\ [turn EXCEPT !.aborted = TRUE, !.due = 0].aborted
      /\ [turn EXCEPT !.aborted = TRUE, !.due = 0].due = 0
  BY DEF PlayTurnStates
<1>3. /\ [turn EXCEPT !.aborted = TRUE, !.due = 0].at = turn.at
      /\ [turn EXCEPT !.aborted = TRUE, !.due = 0].session = turn.session
      /\ [turn EXCEPT !.aborted = TRUE, !.due = 0].agent = turn.agent
      /\ [turn EXCEPT !.aborted = TRUE, !.due = 0].held = turn.held
  BY DEF PlayTurnStates
<1> QED
  BY <1>1, <1>2, <1>3

\* A stream fails.
LEMMA PlayBreakKeepsInv ==
  ASSUME PlayInv, NEW t \in PlayTurns, PlayBreak(t)
  PROVE  PlayInv'
<1> DEFINE turn == [playTurn[t] EXCEPT !.aborted = TRUE, !.due = 0]
<1>1. /\ UNCHANGED <<playSessions, playCart, playItems, playExpiries, playLast>>
      /\ playTurn[t].open /\ ~playTurn[t].aborted
      /\ playPage'.session = playPage.session /\ playPage'.shown = playPage.shown
      /\ playPage'.running = FALSE /\ playPage' \in PlayPages
      /\ PlaySet(t, PlayLeft(turn)) \/ PlaySet(t, PlayOver(turn))
  BY PlayTurnFields DEF PlayBreak, PlayPages
<1>2. /\ turn \in PlayTurnStates /\ turn.at = playTurn[t].at /\ turn.aborted
      /\ turn.session = playTurn[t].session /\ turn.agent = playTurn[t].agent
      /\ turn.held = playTurn[t].held
  BY PlayTurnFields, PlayFailedIsTurn
<1> HIDE DEF turn
<1>3. playPage'.running = (playTurn[t].aborted /\ playPage.running)
  BY <1>1
<1>4. CASE PlaySet(t, PlayLeft(turn))
  BY <1>1, <1>2, <1>3, <1>4, PlayLeftIsTurn, PlayLeaveKeepsInv
<1>5. CASE PlaySet(t, PlayOver(turn))
  <2>1. /\ PlayOver(turn) \in PlayTurnStates /\ ~PlayOver(turn).open
        /\ PlayOver(turn).at = "ended" /\ ~PlayOver(turn).told /\ PlayOver(turn).held = 0
    BY <1>2, PlayOverIsTurn DEF PlayOver, PlayUnsent
  <2> QED
    BY <1>1, <1>3, <1>5, <2>1, PlayLeaveKeepsInv
<1> QED
  BY <1>1, <1>4, <1>5

\* The page shows the cart of a result: that of its session's agent.
LEMMA PlayShowKeepsInv ==
  ASSUME PlayInv, NEW t \in PlayTurns, playTurn[t].agent \in PlayTurns,
         playTurn[t].at \in {"running", "adding", "ended"}, PlayShow(t)
  PROVE  PlayInv'
<1>1. /\ UNCHANGED <<playSessions, playCart, playItems, playExpiries, playLast>>
      /\ playTurn[t].open /\ playTurn[t].told /\ ~playTurn[t].aborted
      /\ playPage'.session = playPage.session /\ playPage'.running = playPage.running
      /\ playPage'.shown = playTurn[t].agent /\ playPage' \in PlayPages
  BY PlayTurnFields DEF PlayShow, PlayPages, PlayTurnStates
<1>2. ASSUME NEW u \in PlayTurns, u # t PROVE playTurn'[u] = playTurn[u]
  BY <1>2, PlayTurnFields DEF PlayShow, PlaySet
<1>3. /\ playTurn'[t].at = playTurn[t].at /\ playTurn'[t].open = playTurn[t].open
      /\ playTurn'[t].aborted = playTurn[t].aborted /\ playTurn'[t].told = playTurn[t].told
      /\ playTurn'[t].session = playTurn[t].session
      /\ playTurn'[t].agent = playTurn[t].agent /\ playTurn'[t].held = playTurn[t].held
      /\ playTurn' \in [PlayTurns -> PlayTurnStates]
  <2>1. [playTurn[t] EXCEPT !.due = 0] \in PlayTurnStates
    BY PlayTurnFields, PlayAssumption DEF PlayTurnStates, PlayAssumption
  <2> QED
    BY <2>1, PlayTurnFields DEF PlayShow, PlaySet, PlayTurnStates
<1>4. playPage.session # 0 /\ playTurn[t].session = playPage.session
  BY <1>1 DEF PlayInv, PlaySessionIsTurns, PlayAwaited
<1>5. PlayTypeOK'
  BY <1>1, <1>3 DEF PlayInv, PlayTypeOK, PlayPages, PlayTurnStates
<1>6. PlayArraysAre'
  BY <1>1, <1>2, <1>3 DEF PlayInv, PlayArraysAre
<1>7. PlayAwaitsOne'
  BY <1>1, <1>2, <1>3 DEF PlayInv, PlayAwaitsOne, PlayAwaited
<1>8. PlaySessionIsTurns'
  BY <1>1, <1>2, <1>3 DEF PlayInv, PlaySessionIsTurns, PlayAwaited
<1>9. RunningIsShown'
  BY <1>1, <1>2, <1>3 DEF PlayInv, RunningIsShown
<1>10. playExpiries' = 0 => PlaySessionsLast'
  BY <1>1, <1>2, <1>3, <1>4 DEF PlayInv, PlaySessionsLast
<1> QED
  BY <1>5, <1>6, <1>7, <1>8, <1>9, <1>10 DEF PlayInv

\* The route finds the agent of a turn's session, or goes on to make one.
LEMMA PlayLookupKeepsInv ==
  ASSUME PlayInv, NEW t \in PlayTurns, PlayLookup(t)
  PROVE  PlayInv'
<1>0. PICK s \in PlayIds : s = playTurn[t].session
  BY PlayTurnFields DEF PlayTurnStates
<1>1. /\ UNCHANGED <<playPage, playSessions, playCart, playItems, playExpiries, playLast>>
      /\ playTurn[t].at = "sent" /\ t # 0
      /\ playTurn[t].open \/ playTurn[t].aborted
  BY PlayZeroIsNoTurn DEF PlayLookup, PlayInv, PlayAwaitsOne
<1>2. PICK agent \in PlayIds : agent = IF s = 0 THEN 0 ELSE playSessions[s]
  BY DEF PlayInv, PlayTypeOK, PlayPages, PlayIds
<1>3. PICK q \in PlayTurnStates :
        /\ PlaySet(t, q)
        /\ IF agent # 0 THEN q = [playTurn[t] EXCEPT !.at = "running", !.agent = agent]
           ELSE q = [playTurn[t] EXCEPT !.at = "creating",
                       !.session = IF playTurn[t].session = 0 THEN t ELSE playTurn[t].session]
  <2>1. [playTurn[t] EXCEPT !.at = "running", !.agent = agent] \in PlayTurnStates
    BY PlayTurnFields DEF PlayTurnStates
  <2>2. [playTurn[t] EXCEPT !.at = "creating",
           !.session = IF playTurn[t].session = 0 THEN t ELSE playTurn[t].session]
         \in PlayTurnStates
    BY PlayTurnFields DEF PlayTurnStates, PlayIds
  <2> QED
    BY <1>0, <1>2, <2>1, <2>2 DEF PlayLookup
<1>4. /\ \A u \in PlayTurns : u # t => playTurn'[u] = playTurn[u]
      /\ playTurn' \in [PlayTurns -> PlayTurnStates] /\ playTurn'[t] = q
  BY <1>3, PlayTurnFields DEF PlaySet
<1>5. /\ playTurn'[t].open = playTurn[t].open /\ playTurn'[t].aborted = playTurn[t].aborted
      /\ playTurn'[t].told = playTurn[t].told /\ playTurn'[t].held = playTurn[t].held
      /\ \/ /\ playTurn'[t].at = "running" /\ playTurn'[t].session = s /\ s # 0
            /\ playTurn'[t].agent = playSessions[s] /\ playSessions[s] # 0
         \/ /\ playTurn'[t].at = "creating"
            /\ s # 0 => playSessions[s] = 0
            /\ playTurn'[t].session = IF s = 0 THEN t ELSE s
  <2>1. CASE agent # 0
    <3>1. q = [playTurn[t] EXCEPT !.at = "running", !.agent = agent]
      BY <1>3, <2>1
    <3>2. s # 0 /\ agent = playSessions[s]
      BY <1>2, <2>1
    <3>3. /\ q.open = playTurn[t].open /\ q.aborted = playTurn[t].aborted
          /\ q.told = playTurn[t].told /\ q.held = playTurn[t].held
          /\ q.at = "running" /\ q.session = s /\ q.agent = agent
      BY <1>0, <3>1, PlayTurnFields DEF PlayTurnStates
    <3> QED
      BY <1>4, <2>1, <3>2, <3>3
  <2>2. CASE agent = 0
    <3>1. q = [playTurn[t] EXCEPT !.at = "creating", !.session = IF s = 0 THEN t ELSE s]
      BY <1>0, <1>3, <2>2
    <3>2. s # 0 => playSessions[s] = 0
      BY <1>2, <2>2
    <3>3. /\ q.open = playTurn[t].open /\ q.aborted = playTurn[t].aborted
          /\ q.told = playTurn[t].told /\ q.held = playTurn[t].held
          /\ q.at = "creating" /\ q.session = IF s = 0 THEN t ELSE s
      BY <3>1, PlayTurnFields DEF PlayTurnStates
    <3> QED
      BY <1>4, <3>2, <3>3
  <2> QED
    BY <2>1, <2>2
<1>6. PlayTypeOK'
  BY <1>1, <1>4 DEF PlayInv, PlayTypeOK, PlayPages, PlayTurnStates
<1>7. PlayArraysAre'
  BY <1>1, <1>4, <1>5 DEF PlayInv, PlayArraysAre, PlayIds
<1>8. PlayAwaitsOne'
  BY <1>1, <1>4, <1>5 DEF PlayInv, PlayAwaitsOne, PlayAwaited
<1>9. PlaySessionIsTurns'
  BY <1>0, <1>1, <1>4, <1>5 DEF PlayInv, PlaySessionIsTurns, PlayAwaited
<1>10. RunningIsShown'
  BY <1>1, <1>4, <1>5 DEF PlayInv, RunningIsShown
<1>11. playExpiries' = 0 => PlaySessionsLast'
  BY <1>0, <1>1, <1>4, <1>5 DEF PlayInv, PlaySessionsLast
<1> QED
  BY <1>6, <1>7, <1>8, <1>9, <1>10, <1>11 DEF PlayInv

\* A new array comes after those there are, and is empty.
LEMMA PlayMakesArray ==
  ASSUME PlayInv, PlayHasRoom, playItems' = PlayNewArray
  PROVE  \E n \in 0 .. PlayMaxCarts :
           /\ DOMAIN playItems = 1 .. n /\ n + 1 \in 1 .. PlayMaxCarts
           /\ DOMAIN playItems' = 1 .. (n + 1) /\ Cardinality(DOMAIN playItems') = n + 1
           /\ \A c \in 1 .. n : playItems'[c] = playItems[c]
           /\ playItems'[n + 1] = 0
<1>1. PICK n \in 0 .. PlayMaxCarts : DOMAIN playItems = 1 .. n
  BY DEF PlayInv, PlayArraysAre
<1>2. PlayMaxCarts \in Nat
  BY PlayAssumption DEF PlayAssumption
<1>3. Cardinality(1 .. n) = n /\ Cardinality(1 .. (n + 1)) = n + 1
  BY <1>2, FS_Interval
<1>4. n + 1 \in 1 .. PlayMaxCarts
  BY <1>1, <1>2, <1>3 DEF PlayHasRoom
<1>5. DOMAIN playItems' = 1 .. (n + 1)
  BY <1>1, <1>3 DEF PlayNewArray
<1>6. (\A c \in 1 .. n : playItems'[c] = playItems[c]) /\ playItems'[n + 1] = 0
  BY <1>1, <1>2, <1>3 DEF PlayNewArray
<1> QED
  BY <1>1, <1>3, <1>4, <1>5, <1>6

\* A turn makes the agent of its session, and the agent's cart.
LEMMA PlayCreateKeepsInv ==
  ASSUME PlayInv, NEW t \in PlayTurns, PlayCreate(t)
  PROVE  PlayInv'
<1>0. PICK s \in PlayIds : s = playTurn[t].session
  BY PlayTurnFields DEF PlayTurnStates
<1>1. /\ UNCHANGED <<playPage, playExpiries, playLast>> /\ playTurn[t].at = "creating"
      /\ t # 0 /\ s # 0 /\ s \in PlayTurns
  BY <1>0, PlayZeroIsNoTurn DEF PlayCreate, PlayInv, PlayArraysAre, PlayIds
<1>2. PICK n \in 0 .. PlayMaxCarts :
        /\ DOMAIN playItems = 1 .. n /\ n + 1 \in 1 .. PlayMaxCarts
        /\ DOMAIN playItems' = 1 .. (n + 1) /\ Cardinality(DOMAIN playItems') = n + 1
        /\ \A c \in 1 .. n : playItems'[c] = playItems[c]
        /\ playItems'[n + 1] = 0
  BY PlayMakesArray DEF PlayCreate
<1>3. PICK q \in PlayTurnStates :
        PlaySet(t, q) /\ q = [playTurn[t] EXCEPT !.at = "running", !.agent = t]
  <2>1. [playTurn[t] EXCEPT !.at = "running", !.agent = t] \in PlayTurnStates
    BY PlayTurnFields DEF PlayTurnStates, PlayIds
  <2> QED
    BY <2>1 DEF PlayCreate
<1>4. /\ \A u \in PlayTurns : u # t => playTurn'[u] = playTurn[u]
      /\ playTurn' \in [PlayTurns -> PlayTurnStates] /\ playTurn'[t] = q
  BY <1>3, PlayTurnFields DEF PlaySet
<1>5. /\ playTurn'[t].open = playTurn[t].open /\ playTurn'[t].aborted = playTurn[t].aborted
      /\ playTurn'[t].told = playTurn[t].told /\ playTurn'[t].held = playTurn[t].held
      /\ playTurn'[t].at = "running" /\ playTurn'[t].session = s /\ playTurn'[t].agent = t
  BY <1>0, <1>3, <1>4, PlayTurnFields DEF PlayTurnStates
<1>6. /\ playSessions \in [PlayTurns -> PlayIds] /\ playSessions' = [playSessions EXCEPT ![s] = t]
      /\ playCart \in [PlayTurns -> (1 .. n) \cup {0}] /\ playCart' = [playCart EXCEPT ![t] = n + 1]
  BY <1>0, <1>2 DEF PlayCreate, PlayInv, PlayTypeOK, PlayPages
<1>7. /\ playSessions' \in [PlayTurns -> PlayIds] /\ playSessions'[s] = t
      /\ \A x \in PlayTurns : x # s => playSessions'[x] = playSessions[x]
      /\ playCart' \in [PlayTurns -> (1 .. (n + 1)) \cup {0}] /\ playCart'[t] # 0
      /\ \A a \in PlayTurns : playCart[a] # 0 => playCart'[a] # 0
  BY <1>1, <1>2, <1>6 DEF PlayIds
<1>8. PlayTypeOK'
  <2>1. PlayMaxItems \in Nat /\ PlayMaxCarts \in Nat
    BY PlayAssumption DEF PlayAssumption
  <2>2. \A c \in DOMAIN playItems' : playItems'[c] \in 0 .. PlayMaxItems
    BY <1>2, <2>1 DEF PlayInv, PlayTypeOK, PlayPages
  <2> QED
    BY SMTT(20), <1>1, <1>2, <1>4, <1>7, <2>2 DEF PlayInv, PlayTypeOK, PlayPages, PlayTurnStates
<1>9. PlayArraysAre'
  <2>1. \A x \in PlayTurns : playSessions'[x] # 0 => playCart'[playSessions'[x]] # 0
    BY <1>6, <1>7 DEF PlayInv, PlayArraysAre, PlayIds
  <2>2. \E m \in 0 .. PlayMaxCarts : DOMAIN playItems' = 1 .. m
    BY <1>2
  <2>3. ASSUME NEW u \in PlayTurns
        PROVE  /\ playTurn'[u].at \in {"running", "adding"} =>
                    playTurn'[u].agent # 0 /\ playCart'[playTurn'[u].agent] # 0
               /\ playTurn'[u].at = "adding" => playTurn'[u].held # 0
               /\ playTurn'[u].held \in DOMAIN playItems' \cup {0}
               /\ playTurn'[u].at \in {"creating", "running", "adding"}
                    \/ (playTurn'[u].at = "ended" /\ playTurn'[u].open) =>
                  playTurn'[u].session # 0
    <3>1. playTurn[u].held \in DOMAIN playItems' \cup {0}
      BY <1>2 DEF PlayInv, PlayArraysAre
    <3>2. CASE u = t
      BY <1>1, <1>5, <1>7, <3>1, <3>2
    <3>3. CASE u # t
      <4>1. playTurn[u].agent \in PlayIds
        BY PlayTurnFields DEF PlayTurnStates
      <4> QED
        BY <1>4, <1>7, <3>1, <3>3, <4>1 DEF PlayInv, PlayArraysAre, PlayIds
    <3> QED
      BY <3>2, <3>3
  <2> QED
    BY <2>1, <2>2, <2>3 DEF PlayArraysAre
<1>10. PlayAwaitsOne'
  BY <1>1, <1>4, <1>5 DEF PlayInv, PlayAwaitsOne, PlayAwaited
<1>11. PlaySessionIsTurns'
  BY <1>0, <1>1, <1>4, <1>5 DEF PlayInv, PlaySessionIsTurns, PlayAwaited
<1>12. RunningIsShown'
  BY <1>1, <1>4, <1>5 DEF PlayInv, RunningIsShown
<1>13. playExpiries' = 0 => PlaySessionsLast'
  <2> SUFFICES ASSUME playExpiries' = 0 PROVE PlaySessionsLast'
    OBVIOUS
  <2>1. PlaySessionsLast /\ s = t /\ playSessions[t] = 0
    BY <1>0, <1>1 DEF PlayInv, PlaySessionsLast
  <2>2. /\ playPage'.session # 0 => playSessions'[playPage'.session] # 0
        /\ playPage'.shown # 0 => playPage'.session # 0
                                   /\ playSessions'[playPage'.session] = playPage'.shown
    <3>1. playPage.session \in PlayIds
      BY PlayTurnFields DEF PlayPages
    <3> QED
      BY <1>1, <1>7, <2>1, <3>1 DEF PlaySessionsLast, PlayIds
  <2>3. ASSUME NEW u \in PlayTurns
        PROVE  /\ playTurn'[u].at \in {"unsent", "sent", "creating"} => playSessions'[u] = 0
               /\ playTurn'[u].at = "sent" /\ playTurn'[u].session # 0 =>
                    playSessions'[playTurn'[u].session] # 0
               /\ playTurn'[u].at = "creating" => playTurn'[u].session = u
               /\ playTurn'[u].at \in {"running", "adding"}
                    \/ (playTurn'[u].at = "ended" /\ playTurn'[u].open) =>
                    /\ playSessions'[playTurn'[u].session] = playTurn'[u].agent
                    /\ playTurn'[u].agent # 0
    <3>1. CASE u = t
      BY <1>1, <1>5, <1>7, <3>1
    <3>2. CASE u # t
      <4>1. playTurn[u].session \in PlayIds
        BY PlayTurnFields DEF PlayTurnStates
      <4> QED
        BY <1>1, <1>4, <1>7, <2>1, <3>2, <4>1
        DEF PlaySessionsLast, PlayIds, PlayInv, PlayArraysAre
    <3> QED
      BY <3>1, <3>2
  <2> QED
    BY <2>2, <2>3 DEF PlaySessionsLast
<1> QED
  BY <1>8, <1>9, <1>10, <1>11, <1>12, <1>13 DEF PlayInv

\* A session times out.
LEMMA PlayExpireKeepsInv ==
  ASSUME PlayInv, NEW s \in PlayTurns, PlayExpire(s)
  PROVE  PlayInv'
<1>1. /\ UNCHANGED <<playPage, playTurn, playCart, playItems, playLast>>
      /\ playSessions' = [playSessions EXCEPT ![s] = 0]
      /\ playExpiries' = playExpiries + 1 /\ playExpiries \in 0 .. PlayMaxExpiries
      /\ playExpiries < PlayMaxExpiries /\ PlayMaxExpiries \in Nat
  BY PlayAssumption DEF PlayExpire, PlayAssumption, PlayInv, PlayTypeOK, PlayPages
<1>2. playSessions \in [PlayTurns -> PlayIds]
  BY DEF PlayInv, PlayTypeOK, PlayPages
<1>3. PlayTypeOK'
  BY <1>1, <1>2 DEF PlayInv, PlayTypeOK, PlayPages, PlayIds
<1>4. PlayArraysAre'
  BY <1>1, <1>2 DEF PlayInv, PlayArraysAre
<1>5. PlayAwaitsOne' /\ PlaySessionIsTurns' /\ RunningIsShown'
  BY <1>1 DEF PlayInv, PlayAwaitsOne, PlaySessionIsTurns, RunningIsShown, PlayAwaited
<1> QED
  BY <1>1, <1>3, <1>4, <1>5 DEF PlayInv

\* A run ends.
LEMMA PlayEndKeepsInv ==
  ASSUME PlayInv, NEW t \in PlayTurns, PlayEnd(t)
  PROVE  PlayInv'
<1>1. /\ UNCHANGED <<playPage, playSessions, playCart, playItems, playExpiries, playLast>>
      /\ playTurn[t].at = "running"
  BY DEF PlayEnd
<1>2. PICK q \in PlayTurnStates :
        /\ PlaySet(t, q)
        /\ playTurn[t].open => q = [playTurn[t] EXCEPT !.at = "ended"]
        /\ ~playTurn[t].open => q = PlayOver(playTurn[t])
  <2>1. [playTurn[t] EXCEPT !.at = "ended"] \in PlayTurnStates
    BY PlayTurnFields DEF PlayTurnStates
  <2> QED
    BY <2>1, PlayTurnFields, PlayOverIsTurn DEF PlayEnd
<1>3. /\ \A u \in PlayTurns : u # t => playTurn'[u] = playTurn[u]
      /\ playTurn' \in [PlayTurns -> PlayTurnStates] /\ playTurn'[t] = q
  BY <1>2, PlayTurnFields DEF PlaySet
<1>4. /\ playTurn'[t].at = "ended"
      /\ \/ /\ playTurn[t].open /\ playTurn'[t].open = playTurn[t].open
            /\ playTurn'[t].aborted = playTurn[t].aborted
            /\ playTurn'[t].told = playTurn[t].told /\ playTurn'[t].held = playTurn[t].held
            /\ playTurn'[t].session = playTurn[t].session
            /\ playTurn'[t].agent = playTurn[t].agent
         \/ /\ ~playTurn[t].open /\ playTurn'[t].open = FALSE
            /\ playTurn'[t].told = FALSE /\ playTurn'[t].held = 0
  <2>1. CASE playTurn[t].open
    <3>1. playTurn'[t] = [playTurn[t] EXCEPT !.at = "ended"]
      BY <1>2, <1>3, <2>1
    <3>2. playTurn[t] \in PlayTurnStates
      BY PlayTurnFields
    <3>3. playTurn'[t].at = "ended"
      BY <3>1, <3>2 DEF PlayTurnStates
    <3>4. /\ playTurn'[t].open = playTurn[t].open
          /\ playTurn'[t].aborted = playTurn[t].aborted
          /\ playTurn'[t].told = playTurn[t].told /\ playTurn'[t].held = playTurn[t].held
          /\ playTurn'[t].session = playTurn[t].session
          /\ playTurn'[t].agent = playTurn[t].agent
      BY <3>1, <3>2 DEF PlayTurnStates
    <3> QED
      BY <2>1, <3>3, <3>4
  <2>2. CASE ~playTurn[t].open
    <3>1. playTurn'[t] = PlayOver(playTurn[t])
      BY <1>2, <1>3, <2>2
    <3> QED
      BY <2>2, <3>1 DEF PlayOver, PlayUnsent
  <2> QED
    BY <2>1, <2>2, PlayTurnFields DEF PlayTurnStates
<1>5. PlayTypeOK'
  BY <1>1, <1>3 DEF PlayInv, PlayTypeOK, PlayPages, PlayTurnStates
<1>6. PlayArraysAre'
  BY <1>1, <1>3, <1>4 DEF PlayInv, PlayArraysAre
<1>7. PlayAwaitsOne'
  BY <1>1, <1>3, <1>4 DEF PlayInv, PlayAwaitsOne, PlayAwaited
<1>8. PlaySessionIsTurns'
  BY <1>1, <1>3, <1>4 DEF PlayInv, PlaySessionIsTurns, PlayAwaited
<1>9. RunningIsShown'
  BY <1>1, <1>3, <1>4 DEF PlayInv, RunningIsShown
<1>10. playExpiries' = 0 => PlaySessionsLast'
  BY <1>1, <1>3, <1>4 DEF PlayInv, PlaySessionsLast
<1> QED
  BY <1>5, <1>6, <1>7, <1>8, <1>9, <1>10 DEF PlayInv

\* A run at work has its agent, and the agent its array.
LEMMA PlayRuns ==
  ASSUME PlayInv, NEW t \in PlayTurns, playTurn[t].at \in {"running", "adding"}
  PROVE  /\ playTurn[t].agent \in PlayTurns
         /\ playCart[playTurn[t].agent] \in DOMAIN playItems
         /\ \A c \in DOMAIN playItems : playItems[c] \in 0 .. PlayMaxItems
         /\ PlayMaxItems \in Nat
         /\ \A x \in PlayIds :
              [playLast EXCEPT ![playTurn[t].agent] = x] \in [PlayTurns -> PlayIds]
<1>1. playTurn[t].agent \in PlayTurns /\ playCart[playTurn[t].agent] # 0
  BY PlayTurnFields DEF PlayInv, PlayArraysAre, PlayTurnStates, PlayIds
<1>2. playCart[playTurn[t].agent] \in DOMAIN playItems
  BY <1>1 DEF PlayInv, PlayTypeOK, PlayPages
<1>3. PlayMaxItems \in Nat
  BY PlayAssumption DEF PlayAssumption
<1> QED
  BY <1>1, <1>2, <1>3 DEF PlayInv, PlayTypeOK, PlayPages

\* What a run does with the carts, whose turns are where they were, keeps the invariant.
LEMMA PlayCartsKeepInv ==
  ASSUME PlayInv, UNCHANGED <<playPage, playTurn, playSessions, playExpiries>>,
         playLast' \in [PlayTurns -> PlayIds],
         NEW n \in 0 .. PlayMaxCarts, DOMAIN playItems' = 1 .. n,
         DOMAIN playItems \subseteq DOMAIN playItems',
         \A c \in DOMAIN playItems' : playItems'[c] \in 0 .. PlayMaxItems,
         playCart' \in [PlayTurns -> DOMAIN playItems' \cup {0}],
         \A a \in PlayTurns : playCart[a] # 0 => playCart'[a] # 0
  PROVE  PlayInv'
<1>1. PlayMaxCarts \in Nat
  BY PlayAssumption DEF PlayAssumption
<1>2. PlayTypeOK'
  BY <1>1 DEF PlayInv, PlayTypeOK, PlayPages
<1>3. PlayArraysAre'
  <2>1. \A x \in PlayTurns : playSessions[x] \in PlayIds /\ playTurn[x].agent \in PlayIds
    BY DEF PlayInv, PlayTypeOK, PlayPages
  <2> QED
    BY <2>1 DEF PlayInv, PlayArraysAre, PlayIds
<1>4. PlayAwaitsOne' /\ PlaySessionIsTurns' /\ RunningIsShown'
  BY DEF PlayInv, PlayAwaitsOne, PlaySessionIsTurns, RunningIsShown, PlayAwaited
<1>5. playExpiries' = 0 => PlaySessionsLast'
  BY DEF PlayInv, PlaySessionsLast
<1> QED
  BY <1>2, <1>3, <1>4, <1>5 DEF PlayInv

\* A product removed, a cart bought and replaced.
LEMMA PlayToolsKeepInv ==
  ASSUME PlayInv, NEW t \in PlayTurns, PlayRemove(t) \/ PlayBuy(t)
  PROVE  PlayInv'
<1>1. playTurn[t].at = "running"
  BY DEF PlayRemove, PlayBuy
<1>2. PICK a \in PlayTurns, c \in DOMAIN playItems :
        a = playTurn[t].agent /\ c = playCart[a]
  BY <1>1, PlayRuns
<1>3. PICK n \in 0 .. PlayMaxCarts : DOMAIN playItems = 1 .. n
  BY DEF PlayInv, PlayArraysAre
<1>4. /\ playCart \in [PlayTurns -> DOMAIN playItems \cup {0}]
      /\ \A i \in DOMAIN playItems : playItems[i] \in 0 .. PlayMaxItems
      /\ PlayMaxItems \in Nat
  BY <1>1, PlayRuns DEF PlayInv, PlayTypeOK, PlayPages
<1>5. playLast' \in [PlayTurns -> PlayIds]
  BY <1>1, PlayRuns DEF PlayRemove, PlayBuy, PlayChangedUnseen, PlayIds
<1>6. CASE PlayRemove(t)
  <2>1. /\ playItems' = [playItems EXCEPT ![c] = 0]
        /\ UNCHANGED <<playPage, playTurn, playSessions, playCart, playExpiries>>
    BY <1>2, <1>6 DEF PlayRemove
  <2>2. DOMAIN playItems' = DOMAIN playItems
    BY <2>1
  <2>3. \A i \in DOMAIN playItems' : playItems'[i] \in 0 .. PlayMaxItems
    BY <1>2, <1>4, <2>1
  <2> QED
    BY <1>3, <1>4, <1>5, <2>1, <2>2, <2>3, PlayCartsKeepInv
<1>7. CASE PlayBuy(t)
  <2>1. /\ PlayHasRoom /\ playItems' = PlayNewArray
        /\ playCart' = [playCart EXCEPT ![a] = Cardinality(DOMAIN playItems')]
        /\ UNCHANGED <<playPage, playTurn, playSessions, playExpiries>>
    BY <1>2, <1>7 DEF PlayBuy
  <2>2. PICK m \in 0 .. PlayMaxCarts :
          /\ DOMAIN playItems = 1 .. m /\ m + 1 \in 1 .. PlayMaxCarts
          /\ DOMAIN playItems' = 1 .. (m + 1) /\ Cardinality(DOMAIN playItems') = m + 1
          /\ \A i \in 1 .. m : playItems'[i] = playItems[i]
          /\ playItems'[m + 1] = 0
    BY <2>1, PlayMakesArray
  <2>3. \A i \in DOMAIN playItems' : playItems'[i] \in 0 .. PlayMaxItems
    BY <1>4, <2>2
  <2>4. /\ playCart' \in [PlayTurns -> DOMAIN playItems' \cup {0}]
        /\ \A b \in PlayTurns : playCart[b] # 0 => playCart'[b] # 0
    BY <1>4, <2>1, <2>2
  <2>5. m + 1 \in 0 .. PlayMaxCarts /\ DOMAIN playItems \subseteq DOMAIN playItems'
    BY <2>2
  <2> QED
    BY <1>5, <2>1, <2>2, <2>3, <2>4, <2>5, PlayCartsKeepInv
<1> QED
  BY <1>6, <1>7

\* A run that begins an add, or is through with one, keeps the invariant.
LEMMA PlayRunGoesOn ==
  ASSUME PlayInv, NEW t \in PlayTurns, playTurn[t].at \in {"running", "adding"},
         UNCHANGED <<playPage, playSessions, playExpiries>>,
         playLast' \in [PlayTurns -> PlayIds],
         DOMAIN playItems' = DOMAIN playItems,
         \A c \in DOMAIN playItems' : playItems'[c] \in 0 .. PlayMaxItems,
         playCart' \in [PlayTurns -> DOMAIN playItems' \cup {0}],
         \A a \in PlayTurns : playCart[a] # 0 => playCart'[a] # 0,
         NEW q \in PlayTurnStates, PlaySet(t, q),
         q.at \in {"running", "adding"}, q.held \in DOMAIN playItems \cup {0},
         q.at = "adding" => q.held # 0,
         q.open = playTurn[t].open, q.aborted = playTurn[t].aborted,
         q.told = playTurn[t].told, q.session = playTurn[t].session,
         q.agent = playTurn[t].agent
  PROVE  PlayInv'
<1>3. /\ \A u \in PlayTurns : u # t => playTurn'[u] = playTurn[u]
      /\ playTurn' \in [PlayTurns -> PlayTurnStates] /\ playTurn'[t] = q
  BY PlayTurnFields DEF PlaySet
<1>4. PlayTypeOK'
  BY <1>3 DEF PlayInv, PlayTypeOK, PlayPages, PlayTurnStates
<1>5. PlayArraysAre'
  <2>1. ASSUME NEW u \in PlayTurns
        PROVE  /\ playTurn'[u].at \in {"running", "adding"} =>
                    playTurn'[u].agent # 0 /\ playCart'[playTurn'[u].agent] # 0
               /\ playTurn'[u].at = "adding" => playTurn'[u].held # 0
               /\ playTurn'[u].held \in DOMAIN playItems' \cup {0}
               /\ playTurn'[u].at \in {"creating", "running", "adding"}
                    \/ (playTurn'[u].at = "ended" /\ playTurn'[u].open) =>
                  playTurn'[u].session # 0
    <3>1. playTurn[u].agent \in PlayIds
      BY PlayTurnFields DEF PlayTurnStates
    <3>2. CASE u = t
      BY <1>3, <3>1, <3>2 DEF PlayInv, PlayArraysAre, PlayIds
    <3>3. CASE u # t
      BY <1>3, <3>1, <3>3 DEF PlayInv, PlayArraysAre, PlayIds
    <3> QED
      BY <3>2, <3>3
  <2>2. \A x \in PlayTurns : playSessions'[x] # 0 => playCart'[playSessions'[x]] # 0
    BY DEF PlayInv, PlayTypeOK, PlayPages, PlayArraysAre, PlayIds
  <2>3. \E m \in 0 .. PlayMaxCarts : DOMAIN playItems' = 1 .. m
    BY DEF PlayInv, PlayArraysAre
  <2> QED
    BY <2>1, <2>2, <2>3 DEF PlayArraysAre
<1>6. PlayAwaitsOne'
  BY <1>3 DEF PlayInv, PlayAwaitsOne, PlayAwaited
<1>7. PlaySessionIsTurns'
  BY <1>3 DEF PlayInv, PlaySessionIsTurns, PlayAwaited
<1>8. RunningIsShown'
  BY <1>3 DEF PlayInv, RunningIsShown
<1>9. playExpiries' = 0 => PlaySessionsLast'
  BY <1>3 DEF PlayInv, PlaySessionsLast
<1> QED
  BY <1>4, <1>5, <1>6, <1>7, <1>8, <1>9 DEF PlayInv

\* A product is asked of the merchant.
LEMMA PlayAddKeepsInv ==
  ASSUME PlayInv, NEW t \in PlayTurns, PlayAdd(t)
  PROVE  PlayInv'
<1>1. playTurn[t].at = "running"
  BY DEF PlayAdd
<1>2. PICK c \in DOMAIN playItems : c = playCart[playTurn[t].agent]
  BY <1>1, PlayRuns
<1>3. c # 0 /\ c \in 0 .. PlayMaxCarts
  BY PlayAssumption DEF PlayInv, PlayTypeOK, PlayPages, PlayAssumption
<1> DEFINE q == [playTurn[t] EXCEPT !.at = "adding", !.held = c]
<1>4. /\ PlaySet(t, q)
      /\ UNCHANGED <<playPage, playSessions, playCart, playItems, playExpiries, playLast>>
  BY <1>2 DEF PlayAdd
<1>5. /\ q \in PlayTurnStates /\ q.at = "adding" /\ q.held = c
      /\ q.open = playTurn[t].open /\ q.aborted = playTurn[t].aborted
      /\ q.told = playTurn[t].told /\ q.session = playTurn[t].session
      /\ q.agent = playTurn[t].agent
  BY <1>3, PlayTurnFields DEF PlayTurnStates
<1> HIDE DEF q
<1>6. /\ playCart \in [PlayTurns -> DOMAIN playItems \cup {0}]
      /\ \A i \in DOMAIN playItems : playItems[i] \in 0 .. PlayMaxItems
      /\ playLast \in [PlayTurns -> PlayIds]
  BY DEF PlayInv, PlayTypeOK, PlayPages
<1> QED
  BY <1>1, <1>2, <1>3, <1>4, <1>5, <1>6, PlayRunGoesOn

\* A result is on its way to the page that listens, and there is no other change.
LEMMA PlayReports ==
  ASSUME PlayInv, NEW t \in PlayTurns, NEW turn \in PlayTurnStates,
         turn.agent = playTurn[t].agent, playTurn[t].agent \in PlayTurns,
         NEW c \in DOMAIN playItems', playItems'[c] \in 0 .. PlayMaxItems,
         PlayReported(t, turn, c)
  PROVE  \E q \in PlayTurnStates :
           /\ PlaySet(t, q) /\ playLast' = [playLast EXCEPT ![playTurn[t].agent] = t]
           /\ playLast' \in [PlayTurns -> PlayIds]
           /\ q.due = IF turn.open /\ ~turn.aborted THEN playItems'[c] ELSE 0
           /\ q.at = turn.at /\ q.open = turn.open /\ q.aborted = turn.aborted
           /\ q.told = turn.told /\ q.session = turn.session
           /\ q.agent = turn.agent /\ q.held = turn.held
<1>1. PICK d : d = IF turn.open /\ ~turn.aborted THEN playItems'[c] ELSE 0
  OBVIOUS
<1>2. d \in 0 .. PlayMaxItems
  BY <1>1, PlayAssumption DEF PlayAssumption
<1> DEFINE q == [turn EXCEPT !.due = d]
<1>3. /\ q \in PlayTurnStates /\ q.due = d
      /\ q.at = turn.at /\ q.open = turn.open /\ q.aborted = turn.aborted
      /\ q.told = turn.told /\ q.session = turn.session
      /\ q.agent = turn.agent /\ q.held = turn.held
  BY <1>2 DEF PlayTurnStates
<1>4. PlaySet(t, q) /\ playLast' = [playLast EXCEPT ![playTurn[t].agent] = t]
  BY <1>1 DEF PlayReported, PlayResult
<1>5. playLast' \in [PlayTurns -> PlayIds]
  BY <1>4 DEF PlayInv, PlayTypeOK, PlayPages, PlayIds
<1> HIDE DEF q
<1> QED
  BY <1>1, <1>3, <1>4, <1>5

\* What a quantity that is raised does.
LEMMA PlayAddMoreDoes ==
  ASSUME PlayInv, NEW t \in PlayTurns, PlayAddMore(t)
  PROVE  \E a \in PlayTurns, c \in DOMAIN playItems, q \in PlayTurnStates :
           /\ a = playTurn[t].agent /\ c = playCart[a] /\ c # 0
           /\ playItems' = [playItems EXCEPT ![c] = playItems[c] + 1]
           /\ \A i \in DOMAIN playItems' : playItems'[i] \in 0 .. PlayMaxItems
           /\ playTurn[t].at = "running" /\ PlaySet(t, q)
           /\ playLast' = [playLast EXCEPT ![a] = t] /\ playLast' \in [PlayTurns -> PlayIds]
           /\ q.due = IF playTurn[t].open /\ ~playTurn[t].aborted THEN playItems'[c] ELSE 0
           /\ q.at = playTurn[t].at /\ q.open = playTurn[t].open
           /\ q.aborted = playTurn[t].aborted /\ q.told = playTurn[t].told
           /\ q.session = playTurn[t].session /\ q.agent = a /\ q.held = playTurn[t].held
           /\ UNCHANGED <<playPage, playSessions, playCart, playExpiries>>
<1>1. playTurn[t].at = "running"
  BY DEF PlayAddMore
<1>2. PICK a \in PlayTurns, c \in DOMAIN playItems :
        a = playTurn[t].agent /\ c = playCart[a] /\ c # 0
  BY <1>1, PlayRuns DEF PlayInv, PlayArraysAre
<1>3. /\ playItems' = [playItems EXCEPT ![c] = playItems[c] + 1]
      /\ playItems[c] \in 1 .. (PlayMaxItems - 1)
      /\ UNCHANGED <<playPage, playSessions, playCart, playExpiries>>
      /\ PlayReported(t, playTurn[t], c)
  BY <1>2 DEF PlayAddMore
<1>4. DOMAIN playItems' = DOMAIN playItems
      /\ \A i \in DOMAIN playItems' : playItems'[i] \in 0 .. PlayMaxItems
  BY <1>1, <1>3, PlayRuns
<1>5. playTurn[t] \in PlayTurnStates
  BY PlayTurnFields
<1> QED
  BY <1>1, <1>2, <1>3, <1>4, <1>5, PlayReports

\* A quantity is raised.
LEMMA PlayAddMoreKeepsInv ==
  ASSUME PlayInv, NEW t \in PlayTurns, PlayAddMore(t)
  PROVE  PlayInv'
<1>1. PICK a \in PlayTurns, c \in DOMAIN playItems, q \in PlayTurnStates :
        /\ a = playTurn[t].agent /\ c = playCart[a] /\ c # 0
        /\ playItems' = [playItems EXCEPT ![c] = playItems[c] + 1]
        /\ \A i \in DOMAIN playItems' : playItems'[i] \in 0 .. PlayMaxItems
        /\ playTurn[t].at = "running" /\ PlaySet(t, q)
        /\ playLast' \in [PlayTurns -> PlayIds]
        /\ q.at = playTurn[t].at /\ q.open = playTurn[t].open
        /\ q.aborted = playTurn[t].aborted /\ q.told = playTurn[t].told
        /\ q.session = playTurn[t].session /\ q.agent = a /\ q.held = playTurn[t].held
        /\ UNCHANGED <<playPage, playSessions, playCart, playExpiries>>
  BY PlayAddMoreDoes
<1>2. DOMAIN playItems' = DOMAIN playItems
  BY <1>1
<1>3. /\ playCart \in [PlayTurns -> DOMAIN playItems \cup {0}]
      /\ playTurn[t].held \in DOMAIN playItems \cup {0}
  BY DEF PlayInv, PlayTypeOK, PlayPages, PlayArraysAre
<1> QED
  BY <1>1, <1>2, <1>3, PlayRunGoesOn

\* The array an add has in hand, with the product in it, is the cart.
LEMMA PlayAddedDoes ==
  ASSUME PlayInv, NEW t \in PlayTurns, PlayAdded(t)
  PROVE  \E a \in PlayTurns, c \in DOMAIN playItems, q \in PlayTurnStates :
           /\ a = playTurn[t].agent /\ c = playTurn[t].held /\ c # 0
           /\ playItems' = [playItems EXCEPT ![c] = playItems[c] + 1]
           /\ playItems[c] \in 0 .. PlayMaxItems
           /\ \A i \in DOMAIN playItems' : playItems'[i] \in 0 .. PlayMaxItems
           /\ playCart' = [playCart EXCEPT ![a] = c]
           /\ playCart \in [PlayTurns -> DOMAIN playItems \cup {0}]
           /\ playTurn[t].at = "adding" /\ PlaySet(t, q)
           /\ playLast' = [playLast EXCEPT ![a] = t] /\ playLast' \in [PlayTurns -> PlayIds]
           /\ q.due = IF playTurn[t].open /\ ~playTurn[t].aborted THEN playItems'[c] ELSE 0
           /\ q.at = "running" /\ q.open = playTurn[t].open
           /\ q.aborted = playTurn[t].aborted /\ q.told = playTurn[t].told
           /\ q.session = playTurn[t].session /\ q.agent = a /\ q.held = 0
           /\ UNCHANGED <<playPage, playSessions, playExpiries>>
<1>1. playTurn[t].at = "adding"
  BY DEF PlayAdded
<1>2. PICK a \in PlayTurns, c \in DOMAIN playItems :
        a = playTurn[t].agent /\ c = playTurn[t].held /\ c # 0
  BY <1>1, PlayRuns DEF PlayInv, PlayArraysAre
<1> DEFINE turn == [playTurn[t] EXCEPT !.at = "running", !.held = 0]
<1>3. /\ playItems' = [playItems EXCEPT ![c] = playItems[c] + 1]
      /\ playItems[c] < PlayMaxItems
      /\ playCart' = [playCart EXCEPT ![a] = c]
      /\ UNCHANGED <<playPage, playSessions, playExpiries>>
      /\ PlayReported(t, turn, c)
  BY <1>2 DEF PlayAdded, PlaySetCart
<1>4. /\ playItems[c] \in 0 .. PlayMaxItems
      /\ playCart \in [PlayTurns -> DOMAIN playItems \cup {0}]
  BY <1>1, PlayRuns DEF PlayInv, PlayTypeOK, PlayPages
<1>5. DOMAIN playItems' = DOMAIN playItems
      /\ \A i \in DOMAIN playItems' : playItems'[i] \in 0 .. PlayMaxItems
  BY <1>1, <1>3, PlayRuns
<1>6. turn \in PlayTurnStates
  <2>1. 0 \in 0 .. PlayMaxCarts
    BY PlayAssumption DEF PlayAssumption
  <2> QED
    BY <2>1, PlayTurnFields DEF PlayTurnStates
<1>7. /\ turn.at = "running" /\ turn.held = 0
      /\ turn.open = playTurn[t].open /\ turn.aborted = playTurn[t].aborted
      /\ turn.told = playTurn[t].told /\ turn.session = playTurn[t].session
      /\ turn.agent = playTurn[t].agent
  BY PlayTurnFields DEF PlayTurnStates
<1> HIDE DEF turn
<1>8. PICK q \in PlayTurnStates :
        /\ PlaySet(t, q) /\ playLast' = [playLast EXCEPT ![playTurn[t].agent] = t]
        /\ playLast' \in [PlayTurns -> PlayIds]
        /\ q.due = IF turn.open /\ ~turn.aborted THEN playItems'[c] ELSE 0
        /\ q.at = turn.at /\ q.open = turn.open /\ q.aborted = turn.aborted
        /\ q.told = turn.told /\ q.session = turn.session
        /\ q.agent = turn.agent /\ q.held = turn.held
  BY <1>2, <1>3, <1>5, <1>6, <1>7, PlayReports
<1> QED
  BY ZenonT(30), <1>1, <1>2, <1>3, <1>4, <1>5, <1>7, <1>8

\* An add is through.
LEMMA PlayAddedKeepsInv ==
  ASSUME PlayInv, NEW t \in PlayTurns, PlayAdded(t)
  PROVE  PlayInv'
<1>1. PICK a \in PlayTurns, c \in DOMAIN playItems, q \in PlayTurnStates :
        /\ a = playTurn[t].agent /\ c # 0
        /\ playItems' = [playItems EXCEPT ![c] = playItems[c] + 1]
        /\ \A i \in DOMAIN playItems' : playItems'[i] \in 0 .. PlayMaxItems
        /\ playCart' = [playCart EXCEPT ![a] = c]
        /\ playCart \in [PlayTurns -> DOMAIN playItems \cup {0}]
        /\ playTurn[t].at = "adding" /\ PlaySet(t, q)
        /\ playLast' \in [PlayTurns -> PlayIds]
        /\ q.at = "running" /\ q.open = playTurn[t].open
        /\ q.aborted = playTurn[t].aborted /\ q.told = playTurn[t].told
        /\ q.session = playTurn[t].session /\ q.agent = a /\ q.held = 0
        /\ UNCHANGED <<playPage, playSessions, playExpiries>>
  BY PlayAddedDoes
<1>2. DOMAIN playItems' = DOMAIN playItems
  BY <1>1
<1>3. /\ playCart' \in [PlayTurns -> DOMAIN playItems' \cup {0}]
      /\ \A b \in PlayTurns : playCart[b] # 0 => playCart'[b] # 0
  BY <1>1, <1>2
<1> QED
  BY <1>1, <1>2, <1>3, PlayRunGoesOn

\* An array belongs to one agent, whether it is its cart or in the hands of a run that
\* adds to it, and an agent has one only once its turn has made it.
PlayCartsApart ==
  /\ \A a, b \in PlayTurns : playCart[a] # 0 /\ playCart[a] = playCart[b] => a = b
  /\ \A t, a \in PlayTurns :
       playTurn[t].at = "adding" /\ playCart[a] = playTurn[t].held => a = playTurn[t].agent
  /\ \A t, u \in PlayTurns :
       (playTurn[t].at = "adding" /\ playTurn[u].at = "adding"
         /\ playTurn[t].held = playTurn[u].held) => playTurn[t].agent = playTurn[u].agent
  /\ \A t \in PlayTurns :
       playTurn[t].at \in {"unsent", "sent", "creating"} => playCart[t] = 0

\* The last change of a cart that is an add of a turn the page did not give up is on the
\* screen or on its way there.
PlayLastShown ==
  \A a, t \in PlayTurns : playLast[a] = t =>
    /\ playCart[a] # 0
    /\ \/ playTurn[t].at \in {"running", "adding"} /\ playTurn[t].agent = a
       \/ playTurn[t].at = "ended" /\ (playTurn[t].open => playTurn[t].agent = a)
    /\ ~playTurn[t].aborted =>
         /\ playTurn[t].due # 0 => playTurn[t].due = playItems[playCart[a]]
         /\ playTurn[t].due = 0 /\ playPage.shown = a =>
              playPage.items = playItems[playCart[a]]

\* A result on its way is that of the turn the page awaits; if its cart has changed since,
\* it was in a way that the page is not told of.
PlayDueGoes ==
  \A t \in PlayTurns : playTurn[t].due # 0 =>
    /\ PlayAwaited(t) /\ playTurn[t].agent \in PlayTurns /\ playCart[playTurn[t].agent] # 0
    /\ playTurn[t].at \in {"running", "adding", "ended"}
    /\ \A u \in PlayTurns : playLast[playTurn[t].agent] = u /\ u # t => playTurn[u].aborted

PlayScreenInv == PlayCartsApart /\ PlayLastShown /\ PlayDueGoes

\* No action of the playground leads out of the invariant.
LEMMA PlayInvNext == PlayInv /\ PlayScreenInv /\ [PlayNext]_playVars => PlayInv'
<1> SUFFICES ASSUME PlayInv, PlayScreenInv, [PlayNext]_playVars PROVE PlayInv'
  OBVIOUS
<1>1. CASE PlayNext
  <2>1. ASSUME NEW t \in PlayTurns, PlayShow(t) PROVE PlayInv'
    <3>1. playTurn[t].agent \in PlayTurns /\ playTurn[t].at \in {"running", "adding", "ended"}
      BY <2>1 DEF PlayShow, PlayScreenInv, PlayDueGoes
    <3> QED
      BY <2>1, <3>1, PlayShowKeepsInv
  <2>2. ASSUME NEW t \in PlayTurns, PlayStep(t) PROVE PlayInv'
    BY <2>1, <2>2, PlaySendKeepsInv, PlayToldKeepsInv, PlayCloseKeepsInv, PlayBreakKeepsInv,
       PlayLookupKeepsInv, PlayCreateKeepsInv, PlayEndKeepsInv, PlayToolsKeepInv,
       PlayAddMoreKeepsInv, PlayAddKeepsInv, PlayAddedKeepsInv DEF PlayStep
  <2>3. ASSUME NEW t \in PlayTurns, PlayExpire(t) PROVE PlayInv'
    BY <2>3, PlayExpireKeepsInv
  <2> QED
    BY <1>1, <2>2, <2>3, PlayStopKeepsInv DEF PlayNext
<1>2. CASE UNCHANGED playVars
  BY <1>2 DEF playVars, PlayInv, PlayTypeOK, PlayPages, PlayArraysAre, PlayAwaitsOne, PlayAwaited,
     PlaySessionIsTurns, PlaySessionsLast, RunningIsShown
<1> QED
  BY <1>1, <1>2

\* No cart yet, and none on the screen.
LEMMA PlayScreenInit == PlayInit => PlayScreenInv
<1> SUFFICES ASSUME PlayInit PROVE PlayScreenInv
  OBVIOUS
<1>1. \A t \in PlayTurns :
        /\ playTurn[t].at = "unsent" /\ playTurn[t].due = 0
        /\ playCart[t] = 0 /\ playLast[t] = 0
  <2>1. PlayUnsent.at = "unsent" /\ PlayUnsent.due = 0
    BY DEF PlayUnsent
  <2>2. \A t \in PlayTurns :
          playTurn[t] = PlayUnsent /\ playCart[t] = 0 /\ playLast[t] = 0
    BY DEF PlayInit
  <2> QED
    BY <2>1, <2>2
<1>2. PlayCartsApart
  BY <1>1 DEF PlayCartsApart
<1>3. PlayLastShown /\ PlayDueGoes
  BY <1>1, PlayZeroIsNoTurn DEF PlayLastShown, PlayDueGoes
<1> QED
  BY <1>2, <1>3 DEF PlayScreenInv

\* What a step may do to the turns and to what is on the screen when it reports nothing:
\* a run goes on or ends, a turn may be given up, and a result is lost only with its turn.
PlayGoesOn ==
  /\ playPage'.shown = 0
       \/ (playPage'.shown = playPage.shown /\ playPage'.items = playPage.items)
  /\ \A u \in PlayTurns :
       /\ playTurn[u].at \in {"running", "adding"} =>
            \/ playTurn'[u].at \in {"running", "adding"} /\ playTurn'[u].agent = playTurn[u].agent
            \/ /\ playTurn'[u].at = "ended"
               /\ playTurn'[u].open => playTurn'[u].agent = playTurn[u].agent
       /\ playTurn[u].at = "ended" =>
            /\ playTurn'[u].at = "ended"
            /\ playTurn'[u].open => playTurn[u].open /\ playTurn'[u].agent = playTurn[u].agent
       /\ playTurn[u].aborted => playTurn'[u].aborted
       /\ playTurn'[u].due = 0 => playTurn'[u].aborted \/ playTurn[u].due = 0
       /\ playTurn'[u].due # 0 =>
            /\ playTurn'[u].due = playTurn[u].due /\ playTurn'[u].agent = playTurn[u].agent
            /\ playTurn'[u].open = playTurn[u].open
            /\ playTurn'[u].aborted = playTurn[u].aborted
            /\ playTurn'[u].at \in {"running", "adding", "ended"}

\* Such a step keeps what the screen shows true, if it says of every cart that it changes
\* that the page is not told.
LEMMA PlayScreenStays ==
  ASSUME PlayInv, PlayScreenInv, PlayCartsApart', PlayGoesOn,
         \A a \in PlayTurns : playCart[a] # 0 => playCart'[a] # 0,
         \A a \in PlayTurns :
           \/ playLast'[a] = 0
           \/ playLast'[a] = playLast[a]
                /\ (playCart[a] # 0 => playItems'[playCart'[a]] = playItems[playCart[a]])
  PROVE  PlayScreenInv'
<1>1. PlayLastShown'
  <2> SUFFICES ASSUME NEW a \in PlayTurns, NEW t \in PlayTurns, playLast'[a] = t
               PROVE  /\ playCart'[a] # 0
                      /\ \/ playTurn'[t].at \in {"running", "adding"} /\ playTurn'[t].agent = a
                         \/ /\ playTurn'[t].at = "ended"
                            /\ playTurn'[t].open => playTurn'[t].agent = a
                      /\ ~playTurn'[t].aborted =>
                           /\ playTurn'[t].due # 0 =>
                                playTurn'[t].due = playItems'[playCart'[a]]
                           /\ playTurn'[t].due = 0 /\ playPage'.shown = a =>
                                playPage'.items = playItems'[playCart'[a]]
    BY DEF PlayLastShown
  <2>1. a # 0 /\ t # 0
    BY PlayZeroIsNoTurn
  <2>2. /\ playLast[a] = t /\ playCart[a] # 0
        /\ playItems'[playCart'[a]] = playItems[playCart[a]]
    BY <2>1 DEF PlayScreenInv, PlayLastShown
  <2>3. /\ \/ playTurn[t].at \in {"running", "adding"} /\ playTurn[t].agent = a
           \/ playTurn[t].at = "ended" /\ (playTurn[t].open => playTurn[t].agent = a)
        /\ ~playTurn[t].aborted =>
             /\ playTurn[t].due # 0 => playTurn[t].due = playItems[playCart[a]]
             /\ playTurn[t].due = 0 /\ playPage.shown = a =>
                  playPage.items = playItems[playCart[a]]
    BY <2>2 DEF PlayScreenInv, PlayLastShown
  <2> QED
    BY <2>1, <2>2, <2>3 DEF PlayGoesOn
<1>2. PlayDueGoes'
  <2> SUFFICES ASSUME NEW t \in PlayTurns, playTurn'[t].due # 0
               PROVE  /\ PlayAwaited(t)' /\ playTurn'[t].agent \in PlayTurns
                      /\ playCart'[playTurn'[t].agent] # 0
                      /\ playTurn'[t].at \in {"running", "adding", "ended"}
                      /\ \A u \in PlayTurns :
                           playLast'[playTurn'[t].agent] = u /\ u # t => playTurn'[u].aborted
    BY DEF PlayDueGoes
  <2>1. /\ playTurn[t].due # 0 /\ playTurn'[t].agent = playTurn[t].agent
        /\ playTurn'[t].open = playTurn[t].open /\ playTurn'[t].aborted = playTurn[t].aborted
        /\ playTurn'[t].at \in {"running", "adding", "ended"}
    BY DEF PlayGoesOn
  <2>2. /\ PlayAwaited(t) /\ playTurn[t].agent \in PlayTurns
        /\ playCart[playTurn[t].agent] # 0
        /\ \A u \in PlayTurns :
             playLast[playTurn[t].agent] = u /\ u # t => playTurn[u].aborted
    BY <2>1 DEF PlayScreenInv, PlayDueGoes
  <2>3. \A u \in PlayTurns : u # 0 /\ (playTurn[u].aborted => playTurn'[u].aborted)
    BY PlayZeroIsNoTurn DEF PlayGoesOn
  <2> QED
    BY <2>1, <2>2, <2>3 DEF PlayAwaited
<1> QED
  BY <1>1, <1>2 DEF PlayScreenInv

\* An add that begins has the cart of its agent in hand.
PlayAddsGoOn ==
  \A u \in PlayTurns :
    /\ playTurn'[u].at = "adding" =>
         \/ /\ playTurn[u].at = "adding" /\ playTurn'[u].agent = playTurn[u].agent
            /\ playTurn'[u].held = playTurn[u].held
         \/ /\ playTurn'[u].agent \in PlayTurns /\ playTurn'[u].held # 0
            /\ playCart[playTurn'[u].agent] = playTurn'[u].held
    /\ playTurn'[u].at \in {"unsent", "sent", "creating"} =>
         playTurn[u].at \in {"unsent", "sent", "creating"}

\* The arrays stay apart while no agent gets another.
LEMMA PlayApartStays ==
  ASSUME PlayCartsApart, playCart' = playCart, PlayAddsGoOn
  PROVE  PlayCartsApart'
<1>1. ASSUME NEW t \in PlayTurns, NEW a \in PlayTurns, playTurn'[t].at = "adding",
             playCart[a] = playTurn'[t].held
      PROVE  a = playTurn'[t].agent
  <2>1. CASE /\ playTurn[t].at = "adding" /\ playTurn'[t].agent = playTurn[t].agent
             /\ playTurn'[t].held = playTurn[t].held
    BY <1>1, <2>1 DEF PlayCartsApart
  <2>2. CASE /\ playTurn'[t].agent \in PlayTurns /\ playTurn'[t].held # 0
             /\ playCart[playTurn'[t].agent] = playTurn'[t].held
    BY <1>1, <2>2 DEF PlayCartsApart
  <2> QED
    BY <1>1, <2>1, <2>2 DEF PlayAddsGoOn
<1>2. ASSUME NEW t \in PlayTurns, NEW u \in PlayTurns,
             playTurn'[t].at = "adding", playTurn'[u].at = "adding",
             playTurn'[t].held = playTurn'[u].held
      PROVE  playTurn'[t].agent = playTurn'[u].agent
  <2>1. CASE playTurn[t].at = "adding" /\ playTurn'[t].agent = playTurn[t].agent
               /\ playTurn'[t].held = playTurn[t].held
               /\ playTurn[u].at = "adding" /\ playTurn'[u].agent = playTurn[u].agent
               /\ playTurn'[u].held = playTurn[u].held
    BY <1>2, <2>1 DEF PlayCartsApart
  <2>2. CASE playTurn'[t].agent \in PlayTurns /\ playCart[playTurn'[t].agent] = playTurn'[t].held
    BY <1>1, <1>2, <2>2
  <2>3. CASE playTurn'[u].agent \in PlayTurns /\ playCart[playTurn'[u].agent] = playTurn'[u].held
    BY <1>1, <1>2, <2>3
  <2> QED
    BY <1>2, <2>1, <2>2, <2>3 DEF PlayAddsGoOn
<1>3. \A t \in PlayTurns :
        playTurn'[t].at \in {"unsent", "sent", "creating"} => playCart[t] = 0
  BY DEF PlayCartsApart, PlayAddsGoOn
<1> QED
  BY <1>1, <1>2, <1>3 DEF PlayCartsApart

\* A step of one turn that changes no cart and reports nothing.
LEMMA PlayScreenOneTurn ==
  ASSUME PlayInv, PlayScreenInv, UNCHANGED <<playCart, playItems, playLast>>,
         playPage'.shown = playPage.shown, playPage'.items = playPage.items,
         NEW t \in PlayTurns, NEW q \in PlayTurnStates, PlaySet(t, q),
         playTurn[t].aborted => q.aborted,
         q.due = 0 => q.aborted \/ playTurn[t].due = 0,
         q.due # 0 => /\ q.due = playTurn[t].due /\ q.agent = playTurn[t].agent
                      /\ q.open = playTurn[t].open /\ q.aborted = playTurn[t].aborted
                      /\ q.at \in {"running", "adding", "ended"},
         playTurn[t].at = "ended" =>
           q.at = "ended" /\ (q.open => playTurn[t].open /\ q.agent = playTurn[t].agent),
         playTurn[t].at \in {"running", "adding"} =>
           \/ q.at \in {"running", "adding"} /\ q.agent = playTurn[t].agent
           \/ q.at = "ended" /\ (q.open => q.agent = playTurn[t].agent),
         q.at = "adding" =>
           \/ playTurn[t].at = "adding" /\ q.agent = playTurn[t].agent
                /\ q.held = playTurn[t].held
           \/ q.agent \in PlayTurns /\ q.held # 0 /\ playCart[q.agent] = q.held,
         q.at \in {"unsent", "sent", "creating"} =>
           playTurn[t].at \in {"unsent", "sent", "creating"}
  PROVE  PlayScreenInv'
<1>1. /\ \A u \in PlayTurns : u # t => playTurn'[u] = playTurn[u]
      /\ playTurn'[t] = q
  BY PlayTurnFields DEF PlaySet
<1>2. \A u \in PlayTurns : playTurn[u].due # 0 =>
        playTurn[u].at \in {"running", "adding", "ended"}
  BY DEF PlayScreenInv, PlayDueGoes
<1>3. PlayGoesOn
  <2>1. ASSUME NEW u \in PlayTurns
        PROVE  /\ playTurn[u].at \in {"running", "adding"} =>
                    \/ /\ playTurn'[u].at \in {"running", "adding"}
                       /\ playTurn'[u].agent = playTurn[u].agent
                    \/ /\ playTurn'[u].at = "ended"
                       /\ playTurn'[u].open => playTurn'[u].agent = playTurn[u].agent
               /\ playTurn[u].at = "ended" =>
                    /\ playTurn'[u].at = "ended"
                    /\ playTurn'[u].open =>
                         playTurn[u].open /\ playTurn'[u].agent = playTurn[u].agent
    BY <1>1
  <2>2. ASSUME NEW u \in PlayTurns
        PROVE  /\ playTurn[u].aborted => playTurn'[u].aborted
               /\ playTurn'[u].due = 0 => playTurn'[u].aborted \/ playTurn[u].due = 0
    BY <1>1
  <2>3. ASSUME NEW u \in PlayTurns, playTurn'[u].due # 0
        PROVE  /\ playTurn'[u].due = playTurn[u].due
               /\ playTurn'[u].agent = playTurn[u].agent
               /\ playTurn'[u].open = playTurn[u].open
               /\ playTurn'[u].aborted = playTurn[u].aborted
               /\ playTurn'[u].at \in {"running", "adding", "ended"}
    BY <1>1, <1>2, <2>3
  <2> QED
    BY <2>1, <2>2, <2>3 DEF PlayGoesOn
<1>4. PlayAddsGoOn
  BY <1>1 DEF PlayAddsGoOn
<1>5. PlayCartsApart'
  BY <1>4, PlayApartStays DEF PlayScreenInv
<1> QED
  BY <1>3, <1>5, PlayScreenStays

\* The page sends, stops or begins anew: every turn that is open is given up.
LEMMA PlaySendKeepsScreen ==
  ASSUME PlayInv, PlayScreenInv,
         PlayStop \/ PlayNewChat \/ \E t \in PlayTurns : PlaySend(t)
  PROVE  PlayScreenInv'
<1>1. /\ UNCHANGED <<playCart, playItems, playLast>>
      /\ playPage'.shown = 0
           \/ (playPage'.shown = playPage.shown /\ playPage'.items = playPage.items)
  <2>1. playPage \in PlayPages
    BY DEF PlayInv, PlayTypeOK, PlayPages
  <2>2. CASE PlayStop
    <3>1. playPage' = [playPage EXCEPT !.running = FALSE]
      BY <2>2 DEF PlayStop
    <3>2. playPage'.shown = playPage.shown /\ playPage'.items = playPage.items
      BY <2>1, <3>1 DEF PlayPages
    <3> QED
      BY <2>2, <3>2 DEF PlayStop
  <2>3. CASE PlayNewChat
    BY <2>3 DEF PlayNewChat
  <2>4. CASE \E t \in PlayTurns : PlaySend(t)
    BY <2>1, <2>4 DEF PlaySend, PlayPages
  <2> QED
    BY <2>2, <2>3, <2>4
<1>2. ASSUME NEW u \in PlayTurns
      PROVE  /\ playTurn[u].due # 0 => playTurn[u].open
             /\ \/ /\ playTurn'[u].at = playTurn[u].at /\ playTurn'[u].open = playTurn[u].open
                   /\ playTurn'[u].agent = playTurn[u].agent
                   /\ playTurn'[u].held = playTurn[u].held /\ playTurn'[u].due = 0
                   /\ playTurn'[u].aborted = (playTurn[u].aborted \/ playTurn[u].open)
                \/ /\ playTurn[u].at = "unsent" /\ playTurn'[u].at = "sent"
                   /\ playTurn'[u].due = playTurn[u].due
                   /\ playTurn'[u].aborted = playTurn[u].aborted
  <2>1. playTurn[u].due # 0 => playTurn[u].open
    BY DEF PlayScreenInv, PlayDueGoes, PlayAwaited
  <2>2. CASE playTurn'[u] =
              [playTurn[u] EXCEPT !.aborted = playTurn[u].aborted \/ playTurn[u].open, !.due = 0]
    <3>1. playTurn[u] \in PlayTurnStates
      BY PlayTurnFields
    <3>2. /\ playTurn'[u].at = playTurn[u].at /\ playTurn'[u].open = playTurn[u].open
          /\ playTurn'[u].agent = playTurn[u].agent
          /\ playTurn'[u].held = playTurn[u].held
      BY <2>2, <3>1 DEF PlayTurnStates
    <3>3. /\ playTurn'[u].due = 0
          /\ playTurn'[u].aborted = (playTurn[u].aborted \/ playTurn[u].open)
      BY <2>2, <3>1 DEF PlayTurnStates
    <3> QED
      BY <2>1, <3>2, <3>3
  <2>3. CASE PlayStop \/ PlayNewChat
    BY <2>2, <2>3, PlayAborts DEF PlayStop, PlayNewChat
  <2>4. ASSUME NEW t \in PlayTurns, PlaySend(t), u # t
        PROVE  playTurn'[u] =
              [playTurn[u] EXCEPT !.aborted = playTurn[u].aborted \/ playTurn[u].open, !.due = 0]
    BY <2>4, PlayAborts DEF PlaySend
  <2>5. CASE PlaySend(u)
    <3>1. playTurn'[u] = [playTurn[u] EXCEPT !.at = "sent", !.open = TRUE,
                                            !.session = playPage.session]
      BY <2>5, PlayAborts DEF PlaySend
    <3>2. playTurn[u].at = "unsent"
      BY <2>5 DEF PlaySend
    <3> QED
      BY <2>1, <3>1, <3>2, PlayTurnFields DEF PlayTurnStates
  <2> QED
    BY <2>2, <2>3, <2>4, <2>5
<1>3. PlayGoesOn
  <2>1. \A u \in PlayTurns : playTurn[u].due # 0 =>
          playTurn[u].at \in {"running", "adding", "ended"}
    BY DEF PlayScreenInv, PlayDueGoes
  <2> QED
    BY ZenonT(30), <1>1, <1>2, <2>1 DEF PlayGoesOn
<1>4. PlayAddsGoOn
  BY <1>2 DEF PlayAddsGoOn
<1>5. PlayCartsApart'
  BY <1>1, <1>4, PlayApartStays DEF PlayScreenInv
<1> QED
  BY <1>1, <1>3, <1>5, PlayScreenStays

\* The stream tells its session, is over or fails.
LEMMA PlayStreamKeepsScreen ==
  ASSUME PlayInv, PlayScreenInv, NEW t \in PlayTurns,
         PlayTold(t) \/ PlayClose(t) \/ PlayBreak(t)
  PROVE  PlayScreenInv'
<1>1. /\ UNCHANGED <<playCart, playItems, playLast>>
      /\ playPage'.shown = playPage.shown /\ playPage'.items = playPage.items
  <2>1. playPage \in PlayPages
    BY PlayTurnFields
  <2> QED
    BY <2>1 DEF PlayTold, PlayClose, PlayBreak, PlayPages
<1>2. playTurn[t] \in PlayTurnStates
  BY PlayTurnFields
<1>3. /\ playTurn[t].due # 0 => ~playTurn[t].aborted
      /\ playTurn[t].at = "unsent" => ~playTurn[t].open
  BY DEF PlayScreenInv, PlayDueGoes, PlayAwaited, PlayInv, PlayAwaitsOne
<1>4. CASE PlayTold(t)
  <2> DEFINE q == [playTurn[t] EXCEPT !.told = TRUE]
  <2>1. /\ q \in PlayTurnStates /\ q.at = playTurn[t].at /\ q.open = playTurn[t].open
        /\ q.aborted = playTurn[t].aborted /\ q.agent = playTurn[t].agent
        /\ q.held = playTurn[t].held /\ q.due = playTurn[t].due
    BY <1>2 DEF PlayTurnStates
  <2>2. PlaySet(t, q) /\ playTurn[t].at \in {"running", "adding", "ended"}
    BY <1>4 DEF PlayTold
  <2> HIDE DEF q
  <2> QED
    BY <1>1, <2>1, <2>2, PlayScreenOneTurn
<1>5. CASE PlayClose(t)
  <2>1. /\ PlaySet(t, PlayLeft(playTurn[t]))
        /\ playTurn[t].aborted \/ (playTurn[t].at = "ended" /\ playTurn[t].due = 0)
    BY <1>5 DEF PlayClose
  <2>2. PICK q \in PlayTurnStates : q = PlayLeft(playTurn[t])
    BY <1>2, PlayLeftIsTurn
  <2>3. /\ ~q.open /\ q.at = playTurn[t].at /\ q.aborted = playTurn[t].aborted /\ q.due = 0
        /\ playTurn[t].at # "ended" =>
             q.agent = playTurn[t].agent /\ q.held = playTurn[t].held
    BY <1>2, <1>3, <2>1, <2>2, PlayLeftIsTurn
  <2>4. playTurn[t].due # 0 => playTurn[t].aborted
    BY <2>1
  <2> QED
    BY <1>1, <1>3, <2>1, <2>2, <2>3, <2>4, PlayScreenOneTurn
<1>6. CASE PlayBreak(t)
  <2> DEFINE turn == [playTurn[t] EXCEPT !.aborted = TRUE, !.due = 0]
  <2>1. /\ turn \in PlayTurnStates /\ turn.at = playTurn[t].at /\ turn.aborted
        /\ turn.due = 0 /\ turn.agent = playTurn[t].agent /\ turn.held = playTurn[t].held
    BY <1>2, PlayFailedIsTurn
  <2>2. \/ PlaySet(t, PlayLeft(turn))
        \/ turn.at \in {"sent", "creating"} /\ PlaySet(t, PlayOver(turn))
    BY <1>6 DEF PlayBreak
  <2> HIDE DEF turn
  <2>3. CASE PlaySet(t, PlayLeft(turn))
    <3>1. PICK q \in PlayTurnStates : q = PlayLeft(turn)
      BY <2>1, PlayLeftIsTurn
    <3>2. /\ ~q.open /\ q.at = playTurn[t].at /\ q.aborted /\ q.due = 0
          /\ playTurn[t].at # "ended" =>
               q.agent = playTurn[t].agent /\ q.held = playTurn[t].held
      BY <2>1, <3>1, PlayLeftIsTurn
    <3> QED
      BY <1>1, <2>3, <3>1, <3>2, PlayScreenOneTurn
  <2>4. CASE turn.at \in {"sent", "creating"} /\ PlaySet(t, PlayOver(turn))
    <3>1. PICK q \in PlayTurnStates : q = PlayOver(turn)
      BY <2>1, PlayOverIsTurn
    <3>2. ~q.open /\ q.at = "ended" /\ q.aborted /\ q.due = 0
      BY <2>1, <3>1 DEF PlayOver, PlayUnsent
    <3> QED
      BY <1>1, <2>1, <2>4, <3>1, <3>2, PlayScreenOneTurn
  <2> QED
    BY <2>2, <2>3, <2>4
<1> QED
  BY <1>4, <1>5, <1>6

\* A turn is looked up, an add begins, a run ends.
LEMMA PlayRunKeepsScreen ==
  ASSUME PlayInv, PlayScreenInv, NEW t \in PlayTurns,
         PlayLookup(t) \/ PlayAdd(t) \/ PlayEnd(t)
  PROVE  PlayScreenInv'
<1>1. UNCHANGED <<playPage, playCart, playItems, playLast>>
  BY DEF PlayLookup, PlayAdd, PlayEnd
<1>2. playTurn[t] \in PlayTurnStates
  BY PlayTurnFields
<1>3. playTurn[t].due # 0 =>
        PlayAwaited(t) /\ playTurn[t].at \in {"running", "adding", "ended"}
  BY DEF PlayScreenInv, PlayDueGoes
<1>4. CASE PlayLookup(t)
  <2>1. PICK q \in PlayTurnStates :
          /\ PlaySet(t, q) /\ q.at \in {"running", "creating"}
          /\ q.aborted = playTurn[t].aborted /\ q.due = playTurn[t].due
    <3>1. PICK s \in PlayIds : s = playTurn[t].session
      BY <1>2 DEF PlayTurnStates
    <3>2. PICK agent \in PlayIds : agent = IF s = 0 THEN 0 ELSE playSessions[s]
      BY DEF PlayInv, PlayTypeOK, PlayIds
    <3>3. PICK session \in PlayIds : session = IF s = 0 THEN t ELSE s
      BY DEF PlayIds
    <3>4. CASE agent # 0
      <4> DEFINE q == [playTurn[t] EXCEPT !.at = "running", !.agent = agent]
      <4>1. PlaySet(t, q)
        BY <1>4, <3>1, <3>2, <3>4 DEF PlayLookup
      <4>2. /\ q \in PlayTurnStates /\ q.at \in {"running", "creating"}
            /\ q.aborted = playTurn[t].aborted /\ q.due = playTurn[t].due
        BY <1>2 DEF PlayTurnStates
      <4> HIDE DEF q
      <4> QED
        BY <4>1, <4>2
    <3>5. CASE agent = 0
      <4> DEFINE q == [playTurn[t] EXCEPT !.at = "creating", !.session = session]
      <4>1. PlaySet(t, q)
        BY <1>4, <3>1, <3>2, <3>3, <3>5 DEF PlayLookup
      <4>2. /\ q \in PlayTurnStates /\ q.at \in {"running", "creating"}
            /\ q.aborted = playTurn[t].aborted /\ q.due = playTurn[t].due
        BY <1>2 DEF PlayTurnStates
      <4> HIDE DEF q
      <4> QED
        BY <4>1, <4>2
    <3> QED
      BY <3>4, <3>5
  <2>2. playTurn[t].at = "sent"
    BY <1>4 DEF PlayLookup
  <2> QED
    BY <1>1, <1>3, <2>1, <2>2, PlayScreenOneTurn
<1>5. CASE PlayAdd(t)
  <2>1. playTurn[t].at = "running"
    BY <1>5 DEF PlayAdd
  <2>2. PICK c \in DOMAIN playItems : c = playCart[playTurn[t].agent] /\ c # 0
    BY <2>1, PlayRuns DEF PlayInv, PlayArraysAre
  <2>3. c \in 0 .. PlayMaxCarts
    BY PlayAssumption DEF PlayInv, PlayTypeOK, PlayAssumption
  <2> DEFINE q == [playTurn[t] EXCEPT !.at = "adding", !.held = c]
  <2>4. /\ q \in PlayTurnStates /\ q.at = "adding" /\ q.held = c
        /\ q.open = playTurn[t].open /\ q.aborted = playTurn[t].aborted
        /\ q.agent = playTurn[t].agent /\ q.due = playTurn[t].due
    BY <1>2, <2>3 DEF PlayTurnStates
  <2>5. PlaySet(t, q)
    BY <1>5, <2>2 DEF PlayAdd
  <2>6. playTurn[t].agent \in PlayTurns
    BY <2>1, PlayRuns
  <2> HIDE DEF q
  <2> QED
    BY <1>1, <2>1, <2>2, <2>4, <2>5, <2>6, PlayScreenOneTurn
<1>6. CASE PlayEnd(t)
  <2>1. playTurn[t].at = "running"
    BY <1>6 DEF PlayEnd
  <2>2. CASE playTurn[t].open
    <3> DEFINE q == [playTurn[t] EXCEPT !.at = "ended"]
    <3>1. /\ q \in PlayTurnStates /\ q.at = "ended" /\ q.open = playTurn[t].open
          /\ q.aborted = playTurn[t].aborted /\ q.agent = playTurn[t].agent
          /\ q.due = playTurn[t].due
      BY <1>2 DEF PlayTurnStates
    <3>2. PlaySet(t, q)
      BY <1>6, <2>2 DEF PlayEnd
    <3> HIDE DEF q
    <3> QED
      BY <1>1, <2>1, <3>1, <3>2, PlayScreenOneTurn
  <2>3. CASE ~playTurn[t].open
    <3>1. PICK q \in PlayTurnStates : q = PlayOver(playTurn[t])
      BY <1>2, PlayOverIsTurn
    <3>2. ~q.open /\ q.at = "ended" /\ q.aborted = playTurn[t].aborted /\ q.due = 0
      BY <3>1 DEF PlayOver, PlayUnsent
    <3>3. PlaySet(t, q) /\ playTurn[t].due = 0
      BY <1>3, <1>6, <2>3, <3>1 DEF PlayEnd, PlayAwaited
    <3> QED
      BY <1>1, <2>1, <3>1, <3>2, <3>3, PlayScreenOneTurn
  <2> QED
    BY <2>2, <2>3
<1> QED
  BY <1>4, <1>5, <1>6

\* A session that times out changes no cart.
LEMMA PlayExpireKeepsScreen ==
  ASSUME PlayScreenInv, NEW s \in PlayTurns, PlayExpire(s)
  PROVE  PlayScreenInv'
BY DEF PlayExpire, PlayScreenInv, PlayCartsApart, PlayLastShown, PlayDueGoes, PlayAwaited

\* The page shows the result it is told.
LEMMA PlayShowKeepsScreen ==
  ASSUME PlayInv, PlayScreenInv, NEW t \in PlayTurns, PlayShow(t)
  PROVE  PlayScreenInv'
<1>1. /\ UNCHANGED <<playCart, playItems, playLast>>
      /\ playTurn[t].open /\ ~playTurn[t].aborted /\ playTurn[t].due # 0
      /\ playPage'.shown = playTurn[t].agent /\ playPage'.items = playTurn[t].due
  <2>1. playPage \in PlayPages
    BY PlayTurnFields
  <2> QED
    BY <2>1 DEF PlayShow, PlayPages
<1>2. /\ \A u \in PlayTurns : u # t => playTurn'[u] = playTurn[u]
      /\ playTurn'[t] = [playTurn[t] EXCEPT !.due = 0]
  BY PlayTurnFields DEF PlayShow, PlaySet
<1>3. /\ playTurn'[t].at = playTurn[t].at /\ playTurn'[t].open = playTurn[t].open
      /\ playTurn'[t].aborted = playTurn[t].aborted /\ playTurn'[t].due = 0
      /\ playTurn'[t].agent = playTurn[t].agent /\ playTurn'[t].held = playTurn[t].held
  BY <1>2, PlayTurnFields DEF PlayTurnStates
<1>4. /\ playTurn[t].at \in {"running", "adding", "ended"}
      /\ \A u \in PlayTurns :
           playLast[playTurn[t].agent] = u /\ u # t => playTurn[u].aborted
  BY <1>1 DEF PlayScreenInv, PlayDueGoes
<1>5. PlayAddsGoOn
  BY <1>2, <1>3 DEF PlayAddsGoOn
<1>6. PlayCartsApart'
  BY <1>1, <1>5, PlayApartStays DEF PlayScreenInv
<1>7. PlayLastShown'
  <2>1. ASSUME NEW a \in PlayTurns, NEW u \in PlayTurns, playLast[a] = u
        PROVE  /\ playCart[a] # 0
               /\ \/ playTurn'[u].at \in {"running", "adding"} /\ playTurn'[u].agent = a
                  \/ playTurn'[u].at = "ended" /\ (playTurn'[u].open => playTurn'[u].agent = a)
               /\ ~playTurn'[u].aborted =>
                    /\ playTurn'[u].due # 0 => playTurn'[u].due = playItems[playCart[a]]
                    /\ playTurn'[u].due = 0 /\ playPage'.shown = a =>
                         playPage'.items = playItems[playCart[a]]
    <3>1. /\ playCart[a] # 0
          /\ \/ playTurn[u].at \in {"running", "adding"} /\ playTurn[u].agent = a
             \/ playTurn[u].at = "ended" /\ (playTurn[u].open => playTurn[u].agent = a)
          /\ ~playTurn[u].aborted =>
               /\ playTurn[u].due # 0 => playTurn[u].due = playItems[playCart[a]]
               /\ playTurn[u].due = 0 /\ playPage.shown = a =>
                    playPage.items = playItems[playCart[a]]
      BY <2>1 DEF PlayScreenInv, PlayLastShown
    <3>2. CASE u = t
      BY <1>1, <1>3, <3>1, <3>2
    <3>3. CASE u # t
      BY <1>1, <1>2, <1>4, <2>1, <3>1, <3>3
    <3> QED
      BY <3>2, <3>3
  <2> QED
    BY <1>1, <2>1 DEF PlayLastShown
<1>8. PlayDueGoes'
  <2> SUFFICES ASSUME NEW u \in PlayTurns, playTurn'[u].due # 0
               PROVE  /\ PlayAwaited(u)' /\ playTurn'[u].agent \in PlayTurns
                      /\ playCart'[playTurn'[u].agent] # 0
                      /\ playTurn'[u].at \in {"running", "adding", "ended"}
                      /\ \A v \in PlayTurns :
                           playLast'[playTurn'[u].agent] = v /\ v # u => playTurn'[v].aborted
    BY DEF PlayDueGoes
  <2>1. u # t /\ playTurn'[u] = playTurn[u]
    BY <1>2, <1>3
  <2>2. /\ PlayAwaited(u) /\ playTurn[u].agent \in PlayTurns
        /\ playCart[playTurn[u].agent] # 0 /\ playTurn[u].at \in {"running", "adding", "ended"}
        /\ \A v \in PlayTurns :
             playLast[playTurn[u].agent] = v /\ v # u => playTurn[v].aborted
    BY <2>1 DEF PlayScreenInv, PlayDueGoes
  <2>3. \A v \in PlayTurns : playTurn[v].aborted => playTurn'[v].aborted
    BY <1>2, <1>3
  <2> QED
    BY <1>1, <2>1, <2>2, <2>3 DEF PlayAwaited
<1> QED
  BY <1>6, <1>7, <1>8 DEF PlayScreenInv

\* An agent gets an array that no other has, and no other add begins.
PlayGets(a, c) ==
  /\ c # 0 /\ playCart' = [playCart EXCEPT ![a] = c]
  /\ \A b \in PlayTurns : playCart[b] = c => b = a
  /\ \A u \in PlayTurns :
       playTurn[u].at = "adding" /\ playTurn[u].held = c => playTurn[u].agent = a
  /\ \A u \in PlayTurns :
       /\ playTurn'[u].at = "adding" =>
            playTurn[u].at = "adding" /\ playTurn'[u].agent = playTurn[u].agent
              /\ playTurn'[u].held = playTurn[u].held
       /\ playTurn'[u].at \in {"unsent", "sent", "creating"} =>
            playTurn[u].at \in {"unsent", "sent", "creating"} /\ u # a

\* The arrays stay apart then.
LEMMA PlayApartSet ==
  ASSUME PlayInv, PlayCartsApart, NEW a \in PlayTurns, NEW c, PlayGets(a, c)
  PROVE  PlayCartsApart'
<1>1. playCart'[a] = c /\ \A b \in PlayTurns : b # a => playCart'[b] = playCart[b]
  BY DEF PlayGets, PlayInv, PlayTypeOK
<1>2. ASSUME NEW b \in PlayTurns, NEW d \in PlayTurns, playCart'[b] # 0,
             playCart'[b] = playCart'[d]
      PROVE  b = d
  BY <1>1, <1>2 DEF PlayGets, PlayCartsApart
<1>3. ASSUME NEW u \in PlayTurns, NEW b \in PlayTurns, playTurn'[u].at = "adding",
             playCart'[b] = playTurn'[u].held
      PROVE  b = playTurn'[u].agent
  BY <1>1, <1>3 DEF PlayGets, PlayCartsApart
<1>4. ASSUME NEW u \in PlayTurns, NEW v \in PlayTurns, playTurn'[u].at = "adding",
             playTurn'[v].at = "adding", playTurn'[u].held = playTurn'[v].held
      PROVE  playTurn'[u].agent = playTurn'[v].agent
  BY <1>4 DEF PlayGets, PlayCartsApart
<1>5. \A u \in PlayTurns :
        playTurn'[u].at \in {"unsent", "sent", "creating"} => playCart'[u] = 0
  BY <1>1 DEF PlayGets, PlayCartsApart
<1> QED
  BY <1>2, <1>3, <1>4, <1>5 DEF PlayCartsApart

\* A new array is no agent's, and in no run's hands.
LEMMA PlayNewIsApart ==
  ASSUME PlayInv, NEW c \in Nat, c \notin DOMAIN playItems, c # 0
  PROVE  /\ \A b \in PlayTurns : playCart[b] # c
         /\ \A u \in PlayTurns : playTurn[u].held # c
BY DEF PlayInv, PlayTypeOK, PlayArraysAre

\* A turn makes its agent, whose cart no one has.
LEMMA PlayCreateKeepsScreen ==
  ASSUME PlayInv, PlayScreenInv, NEW t \in PlayTurns, PlayCreate(t)
  PROVE  PlayScreenInv'
<1>1. UNCHANGED <<playPage, playLast>> /\ playTurn[t].at = "creating"
  BY DEF PlayCreate
<1>2. PICK n \in 0 .. PlayMaxCarts :
        /\ DOMAIN playItems = 1 .. n /\ n + 1 \in 1 .. PlayMaxCarts
        /\ Cardinality(DOMAIN playItems') = n + 1
        /\ \A c \in 1 .. n : playItems'[c] = playItems[c]
  BY PlayMakesArray DEF PlayCreate
<1>3. playCart' = [playCart EXCEPT ![t] = n + 1]
  BY <1>2 DEF PlayCreate
<1>4. /\ \A u \in PlayTurns : u # t => playTurn'[u] = playTurn[u]
      /\ playTurn'[t] = [playTurn[t] EXCEPT !.at = "running", !.agent = t]
  BY PlayTurnFields DEF PlayCreate, PlaySet
<1>5. /\ playTurn'[t].at = "running" /\ playTurn'[t].open = playTurn[t].open
      /\ playTurn'[t].aborted = playTurn[t].aborted /\ playTurn'[t].due = playTurn[t].due
  BY <1>4, PlayTurnFields DEF PlayTurnStates
<1>6. /\ playTurn[t].due = 0
      /\ \A u \in PlayTurns : playTurn[u].due # 0 =>
           playTurn[u].at \in {"running", "adding", "ended"}
  BY <1>1 DEF PlayScreenInv, PlayDueGoes
<1>7. playCart[t] = 0 /\ n + 1 \in Nat /\ n + 1 \notin DOMAIN playItems /\ n + 1 # 0
  BY <1>1, <1>2 DEF PlayScreenInv, PlayCartsApart
<1>8. /\ \A b \in PlayTurns : playCart[b] # n + 1
      /\ \A u \in PlayTurns : playTurn[u].held # n + 1
  BY <1>7, PlayNewIsApart
<1>9. PlayCartsApart'
  <2>1. PlayGets(t, n + 1)
    BY <1>3, <1>4, <1>5, <1>7, <1>8 DEF PlayGets
  <2> QED
    BY <2>1, PlayApartSet DEF PlayScreenInv
<1>10. PlayGoesOn
  <2>1. ASSUME NEW u \in PlayTurns, u # t PROVE playTurn'[u] = playTurn[u]
    BY <1>4, <2>1
  <2> QED
    BY <1>1, <1>5, <1>6, <2>1 DEF PlayGoesOn
<1>11. ASSUME NEW a \in PlayTurns, playCart[a] # 0
       PROVE  playCart'[a] = playCart[a] /\ playItems'[playCart'[a]] = playItems[playCart[a]]
  <2>1. playCart'[a] = playCart[a] /\ playCart[a] \in DOMAIN playItems
    BY <1>3, <1>7, <1>11 DEF PlayInv, PlayTypeOK
  <2> QED
    BY <1>2, <2>1
<1> QED
  BY <1>1, <1>9, <1>10, <1>11, PlayScreenStays

\* A product removed, a cart bought and replaced: the page is not told.
LEMMA PlayToolsKeepScreen ==
  ASSUME PlayInv, PlayScreenInv, NEW t \in PlayTurns, PlayRemove(t) \/ PlayBuy(t)
  PROVE  PlayScreenInv'
<1>1. /\ playTurn[t].at = "running" /\ UNCHANGED <<playPage, playTurn>>
      /\ playLast' = [playLast EXCEPT ![playTurn[t].agent] = 0]
  BY DEF PlayRemove, PlayBuy, PlayChangedUnseen
<1>2. PICK a \in PlayTurns, c \in DOMAIN playItems :
        a = playTurn[t].agent /\ c = playCart[a] /\ c # 0
  BY <1>1, PlayRuns DEF PlayInv, PlayArraysAre
<1>3. /\ playLast'[a] = 0
      /\ \A b \in PlayTurns : b # a => playLast'[b] = playLast[b]
  BY <1>1, <1>2 DEF PlayInv, PlayTypeOK
<1>4. PlayGoesOn
  <2>1. \A u \in PlayTurns : playTurn[u].due # 0 =>
          playTurn[u].at \in {"running", "adding", "ended"}
    BY DEF PlayScreenInv, PlayDueGoes
  <2> QED
    BY <1>1, <2>1 DEF PlayGoesOn
<1>5. CASE PlayRemove(t)
  <2>1. playCart' = playCart /\ playItems' = [playItems EXCEPT ![c] = 0]
    BY <1>2, <1>5 DEF PlayRemove
  <2>2. PlayCartsApart'
    BY <1>1, <2>1 DEF PlayScreenInv, PlayCartsApart
  <2>3. ASSUME NEW b \in PlayTurns, b # a, playCart[b] # 0
        PROVE  playItems'[playCart[b]] = playItems[playCart[b]]
    <3>1. playCart[b] # c /\ playCart[b] \in DOMAIN playItems
      BY <1>2, <2>3 DEF PlayScreenInv, PlayCartsApart, PlayInv, PlayTypeOK
    <3> QED
      BY <2>1, <3>1
  <2> QED
    BY <1>3, <1>4, <2>1, <2>2, <2>3, PlayScreenStays
<1>6. CASE PlayBuy(t)
  <2>1. PICK n \in 0 .. PlayMaxCarts :
          /\ DOMAIN playItems = 1 .. n /\ n + 1 \in 1 .. PlayMaxCarts
          /\ Cardinality(DOMAIN playItems') = n + 1
          /\ \A i \in 1 .. n : playItems'[i] = playItems[i]
    BY <1>6, PlayMakesArray DEF PlayBuy
  <2>2. playCart' = [playCart EXCEPT ![a] = n + 1]
    BY <1>2, <1>6, <2>1 DEF PlayBuy
  <2>3. n + 1 \in Nat /\ n + 1 \notin DOMAIN playItems /\ n + 1 # 0
    BY <2>1
  <2>4. /\ \A b \in PlayTurns : playCart[b] # n + 1
        /\ \A u \in PlayTurns : playTurn[u].held # n + 1
    BY <2>3, PlayNewIsApart
  <2>5. \A u \in PlayTurns : playTurn[u].at \in {"unsent", "sent", "creating"} => u # a
    BY <1>2 DEF PlayScreenInv, PlayCartsApart
  <2>6. PlayCartsApart'
    <3>1. PlayGets(a, n + 1)
      BY <1>1, <2>2, <2>3, <2>4, <2>5 DEF PlayGets
    <3> QED
      BY <3>1, PlayApartSet DEF PlayScreenInv
  <2>7. ASSUME NEW b \in PlayTurns, b # a, playCart[b] # 0
        PROVE  playCart'[b] = playCart[b] /\ playItems'[playCart'[b]] = playItems[playCart[b]]
    <3>1. playCart'[b] = playCart[b] /\ playCart[b] \in DOMAIN playItems
      BY <2>2, <2>7 DEF PlayInv, PlayTypeOK
    <3> QED
      BY <2>1, <3>1
  <2>8. \A b \in PlayTurns : playCart[b] # 0 => playCart'[b] # 0
    BY <2>2, <2>3 DEF PlayInv, PlayTypeOK
  <2> QED
    BY <1>3, <1>4, <2>6, <2>7, <2>8, PlayScreenStays
<1> QED
  BY <1>5, <1>6

\* What an add leaves: the cart of its agent has changed, the result is on its way to the
\* page that awaits it, and no other agent's cart has changed.
LEMMA PlayReportKeepsScreen ==
  ASSUME PlayInv, PlayScreenInv, PlayCartsApart', NEW t \in PlayTurns,
         playTurn[t].at \in {"running", "adding"}, UNCHANGED playPage,
         NEW a \in PlayTurns, a = playTurn[t].agent,
         playLast' = [playLast EXCEPT ![a] = t], playCart'[a] # 0,
         \A b \in PlayTurns : b # a /\ playCart[b] # 0 =>
           playCart'[b] = playCart[b] /\ playItems'[playCart'[b]] = playItems[playCart[b]],
         NEW q \in PlayTurnStates, PlaySet(t, q),
         q.at \in {"running", "adding"}, q.agent = a,
         q.open = playTurn[t].open, q.aborted = playTurn[t].aborted,
         playItems'[playCart'[a]] # 0,
         q.due = IF q.open /\ ~q.aborted THEN playItems'[playCart'[a]] ELSE 0
  PROVE  PlayScreenInv'
<1>1. /\ \A u \in PlayTurns : u # t => playTurn'[u] = playTurn[u]
      /\ playTurn'[t] = q
  BY PlayTurnFields DEF PlaySet
<1>2. playLast'[a] = t /\ \A b \in PlayTurns : b # a => playLast'[b] = playLast[b]
  BY DEF PlayInv, PlayTypeOK
<1>3. playTurn[t].open \/ playTurn[t].aborted
  BY DEF PlayInv, PlayAwaitsOne
<1>4. PlayLastShown'
  <2>1. ASSUME NEW b \in PlayTurns, NEW u \in PlayTurns, playLast'[b] = u
        PROVE  /\ playCart'[b] # 0
               /\ \/ playTurn'[u].at \in {"running", "adding"} /\ playTurn'[u].agent = b
                  \/ playTurn'[u].at = "ended" /\ (playTurn'[u].open => playTurn'[u].agent = b)
               /\ ~playTurn'[u].aborted =>
                    /\ playTurn'[u].due # 0 => playTurn'[u].due = playItems'[playCart'[b]]
                    /\ playTurn'[u].due = 0 /\ playPage'.shown = b =>
                         playPage'.items = playItems'[playCart'[b]]
    <3>1. CASE b = a
      BY <1>1, <1>2, <1>3, <2>1, <3>1
    <3>2. CASE b # a
      <4>1. playLast[b] = u
        BY <1>2, <2>1, <3>2
      <4>2. /\ playCart[b] # 0
            /\ \/ playTurn[u].at \in {"running", "adding"} /\ playTurn[u].agent = b
               \/ playTurn[u].at = "ended" /\ (playTurn[u].open => playTurn[u].agent = b)
            /\ ~playTurn[u].aborted =>
                 /\ playTurn[u].due # 0 => playTurn[u].due = playItems[playCart[b]]
                 /\ playTurn[u].due = 0 /\ playPage.shown = b =>
                      playPage.items = playItems[playCart[b]]
        BY <4>1 DEF PlayScreenInv, PlayLastShown
      <4>3. u # t
        BY <3>2, <4>2
      <4> QED
        BY <1>1, <3>2, <4>2, <4>3
    <3> QED
      BY <3>1, <3>2
  <2> QED
    BY <2>1 DEF PlayLastShown
<1>5. PlayDueGoes'
  <2>1. ASSUME NEW u \in PlayTurns, playTurn'[u].due # 0
        PROVE  /\ PlayAwaited(u)' /\ playTurn'[u].agent \in PlayTurns
               /\ playCart'[playTurn'[u].agent] # 0
               /\ playTurn'[u].at \in {"running", "adding", "ended"}
               /\ \A v \in PlayTurns :
                    playLast'[playTurn'[u].agent] = v /\ v # u => playTurn'[v].aborted
    <3>1. CASE u = t
      BY <1>1, <1>2, <2>1, <3>1 DEF PlayAwaited
    <3>2. CASE u # t
      <4>1. playTurn'[u] = playTurn[u] /\ playTurn[u].due # 0
        BY <1>1, <2>1, <3>2
      <4>2. /\ PlayAwaited(u) /\ playTurn[u].agent \in PlayTurns
            /\ playCart[playTurn[u].agent] # 0
            /\ playTurn[u].at \in {"running", "adding", "ended"}
            /\ \A v \in PlayTurns :
                 playLast[playTurn[u].agent] = v /\ v # u => playTurn[v].aborted
        BY <4>1 DEF PlayScreenInv, PlayDueGoes
      <4>3. playTurn[t].aborted
        BY <1>3, <3>2, <4>2 DEF PlayInv, PlayAwaitsOne, PlayAwaited
      <4>4. playCart'[playTurn[u].agent] # 0
        BY <4>2
      <4>5. \A v \in PlayTurns :
              playLast'[playTurn[u].agent] = v /\ v # u => playTurn'[v].aborted
        <5>1. ASSUME NEW v \in PlayTurns, playLast'[playTurn[u].agent] = v, v # u, v # t
              PROVE  playTurn'[v].aborted
          <6>1. playLast[playTurn[u].agent] = v
            BY <1>2, <4>2, <5>1
          <6> QED
            BY <1>1, <4>2, <5>1, <6>1
        <5> QED
          BY <1>1, <4>3, <5>1
      <4> QED
        BY <4>1, <4>2, <4>4, <4>5 DEF PlayAwaited
    <3> QED
      BY <3>1, <3>2
  <2> QED
    BY <2>1 DEF PlayDueGoes
<1> QED
  BY <1>4, <1>5 DEF PlayScreenInv

\* A quantity is raised.
LEMMA PlayAddMoreKeepsScreen ==
  ASSUME PlayInv, PlayScreenInv, NEW t \in PlayTurns, PlayAddMore(t)
  PROVE  PlayScreenInv'
<1>1. PICK a \in PlayTurns, c \in DOMAIN playItems, q \in PlayTurnStates :
        /\ a = playTurn[t].agent /\ c = playCart[a] /\ c # 0
        /\ playItems' = [playItems EXCEPT ![c] = playItems[c] + 1]
        /\ playTurn[t].at = "running" /\ PlaySet(t, q)
        /\ playLast' = [playLast EXCEPT ![a] = t]
        /\ q.due = IF playTurn[t].open /\ ~playTurn[t].aborted THEN playItems'[c] ELSE 0
        /\ q.at = playTurn[t].at /\ q.open = playTurn[t].open
        /\ q.aborted = playTurn[t].aborted /\ q.agent = a /\ q.held = playTurn[t].held
        /\ UNCHANGED <<playPage, playCart>>
  BY PlayAddMoreDoes
<1>2. playItems'[c] # 0
  BY <1>1 DEF PlayInv, PlayTypeOK
<1>3. /\ \A u \in PlayTurns : u # t => playTurn'[u] = playTurn[u]
      /\ playTurn'[t] = q
  BY <1>1, PlayTurnFields DEF PlaySet
<1>4. PlayAddsGoOn
  BY <1>1, <1>3 DEF PlayAddsGoOn
<1>5. PlayCartsApart'
  BY <1>1, <1>4, PlayApartStays DEF PlayScreenInv
<1>6. ASSUME NEW b \in PlayTurns, b # a, playCart[b] # 0
      PROVE  playItems'[playCart[b]] = playItems[playCart[b]]
  <2>1. playCart[b] # c /\ playCart[b] \in DOMAIN playItems
    BY <1>1, <1>6 DEF PlayScreenInv, PlayCartsApart, PlayInv, PlayTypeOK
  <2> QED
    BY <1>1, <2>1
<1>7. /\ playCart'[a] # 0 /\ playItems'[playCart'[a]] # 0
      /\ q.due = IF q.open /\ ~q.aborted THEN playItems'[playCart'[a]] ELSE 0
      /\ \A b \in PlayTurns : b # a /\ playCart[b] # 0 =>
           playCart'[b] = playCart[b] /\ playItems'[playCart'[b]] = playItems[playCart[b]]
  BY <1>1, <1>2, <1>6
<1> QED
  BY <1>1, <1>5, <1>7, PlayReportKeepsScreen

\* An add is through: its array is its agent's cart.
LEMMA PlayAddedKeepsScreen ==
  ASSUME PlayInv, PlayScreenInv, NEW t \in PlayTurns, PlayAdded(t)
  PROVE  PlayScreenInv'
<1>1. PICK a \in PlayTurns, c \in DOMAIN playItems, q \in PlayTurnStates :
        /\ a = playTurn[t].agent /\ c = playTurn[t].held /\ c # 0
        /\ playItems' = [playItems EXCEPT ![c] = playItems[c] + 1]
        /\ playItems[c] \in 0 .. PlayMaxItems
        /\ playCart' = [playCart EXCEPT ![a] = c]
        /\ playCart \in [PlayTurns -> DOMAIN playItems \cup {0}]
        /\ playTurn[t].at = "adding" /\ PlaySet(t, q)
        /\ playLast' = [playLast EXCEPT ![a] = t]
        /\ q.due = IF playTurn[t].open /\ ~playTurn[t].aborted THEN playItems'[c] ELSE 0
        /\ q.at = "running" /\ q.open = playTurn[t].open
        /\ q.aborted = playTurn[t].aborted /\ q.agent = a
        /\ UNCHANGED playPage
  BY PlayAddedDoes
<1>2. playItems'[c] # 0 /\ playCart'[a] = c
  BY <1>1
<1>3. /\ \A u \in PlayTurns : u # t => playTurn'[u] = playTurn[u]
      /\ playTurn'[t] = q
  BY <1>1, PlayTurnFields DEF PlaySet
<1>4. /\ \A b \in PlayTurns : playCart[b] = c => b = a
      /\ \A u \in PlayTurns :
           playTurn[u].at = "adding" /\ playTurn[u].held = c => playTurn[u].agent = a
  BY <1>1 DEF PlayScreenInv, PlayCartsApart
<1>5. \A u \in PlayTurns : playTurn[u].at \in {"unsent", "sent", "creating"} => u # a
  BY <1>1 DEF PlayScreenInv, PlayCartsApart, PlayInv, PlayArraysAre
<1>6. PlayGets(a, c)
  BY <1>1, <1>3, <1>4, <1>5 DEF PlayGets
<1>7. PlayCartsApart'
  BY <1>6, PlayApartSet DEF PlayScreenInv
<1>8. ASSUME NEW b \in PlayTurns, b # a, playCart[b] # 0
      PROVE  playCart'[b] = playCart[b] /\ playItems'[playCart'[b]] = playItems[playCart[b]]
  <2>1. playCart'[b] = playCart[b] /\ playCart[b] # c /\ playCart[b] \in DOMAIN playItems
    BY <1>1, <1>4, <1>8
  <2> QED
    BY <1>1, <2>1
<1> QED
  BY <1>1, <1>2, <1>7, <1>8, PlayReportKeepsScreen

\* No action of the playground makes the screen untrue.
LEMMA PlayScreenNext == PlayInv /\ PlayScreenInv /\ [PlayNext]_playVars => PlayScreenInv'
<1> SUFFICES ASSUME PlayInv, PlayScreenInv, [PlayNext]_playVars PROVE PlayScreenInv'
  OBVIOUS
<1>1. ASSUME NEW t \in PlayTurns, PlayStep(t) PROVE PlayScreenInv'
  BY <1>1, PlaySendKeepsScreen, PlayStreamKeepsScreen, PlayShowKeepsScreen,
     PlayRunKeepsScreen, PlayCreateKeepsScreen, PlayToolsKeepScreen,
     PlayAddMoreKeepsScreen, PlayAddedKeepsScreen DEF PlayStep
<1>2. ASSUME NEW t \in PlayTurns, PlayExpire(t) PROVE PlayScreenInv'
  BY <1>2, PlayExpireKeepsScreen
<1>3. CASE PlayNext
  BY <1>1, <1>2, <1>3, PlaySendKeepsScreen DEF PlayNext
<1>4. CASE UNCHANGED playVars
  BY <1>4 DEF playVars, PlayScreenInv, PlayCartsApart, PlayLastShown, PlayDueGoes, PlayAwaited
<1> QED
  BY <1>3, <1>4

\* At rest no result is on its way, so the page has shown the last one that it was told.
LEMMA PlayScreenIsCurrent ==
  ASSUME PlayInv, PlayScreenInv
  PROVE  ShownCartIsCurrent
<1> SUFFICES ASSUME NEW t \in PlayIds, t = playLast[playPage.shown],
                    ~playPage.running, playPage.shown # 0, t # 0, ~playTurn[t].aborted
             PROVE  playPage.items = playItems[playCart[playPage.shown]]
  <2>1. playPage.shown # 0 => playLast[playPage.shown] \in PlayIds
    BY DEF PlayInv, PlayTypeOK, PlayIds
  <2> QED
    BY <2>1 DEF ShownCartIsCurrent
<1>1. t \in PlayTurns /\ playPage.shown \in PlayTurns
  BY DEF PlayInv, PlayTypeOK, PlayIds
<1>2. playTurn[t].due = 0
  BY <1>1 DEF PlayInv, RunningIsShown, PlayScreenInv, PlayDueGoes, PlayAwaited
<1> QED
  BY <1>1, <1>2 DEF PlayScreenInv, PlayLastShown

\* The page says it is working exactly while it awaits a turn; the cart it shows is that of
\* the agent its next turn talks to; and at rest the screen has what that cart holds,
\* unless the cart was last changed in a way that the page is not told of: however turns
\* are stopped, fail, end late or overlap.
THEOREM PlayPageIsTrue ==
  PlaySpec => [](PlayTypeOK /\ RunningIsShown /\ ShownCartIsReached /\ ShownCartIsCurrent)
<1>1. PlayInv /\ PlayScreenInv =>
        PlayTypeOK /\ RunningIsShown /\ ShownCartIsReached /\ ShownCartIsCurrent
  BY PlayScreenIsCurrent DEF PlayInv, PlaySessionsLast, ShownCartIsReached
<1>2. PlayInit => PlayInv /\ PlayScreenInv
  BY PlayInvInit, PlayScreenInit
<1>3. PlayInv /\ PlayScreenInv /\ [PlayNext]_playVars => PlayInv' /\ PlayScreenInv'
  BY PlayInvNext, PlayScreenNext
<1> QED
  BY <1>1, <1>2, <1>3, PTL DEF PlaySpec

\* Of all the steps only the end of an add takes a run out of it.
LEMMA PlayAddsEnd ==
  ASSUME PlayInv, [PlayNext]_playVars, NEW t \in PlayTurns, playTurn[t].at = "adding",
         playTurn'[t].at = "running"
  PROVE  playItems'[playCart'[playTurn[t].agent]] > 0
<1>1. ASSUME PlayAdded(t) PROVE playItems'[playCart'[playTurn[t].agent]] > 0
  <2>1. PICK c \in DOMAIN playItems :
          /\ playItems' = [playItems EXCEPT ![c] = playItems[c] + 1]
          /\ playItems[c] \in 0 .. PlayMaxItems
          /\ playTurn[t].agent \in PlayTurns
          /\ playCart' = [playCart EXCEPT ![playTurn[t].agent] = c]
          /\ playCart \in [PlayTurns -> DOMAIN playItems \cup {0}]
          /\ c # 0
    BY <1>1, PlayAddedDoes
  <2>2. PICK a \in PlayTurns : a = playTurn[t].agent
    BY <2>1
  <2>3. playCart'[a] = c /\ playItems'[c] = playItems[c] + 1
    BY <2>1, <2>2
  <2> QED
    BY <2>1, <2>2, <2>3
<1>2. ASSUME NEW u \in PlayTurns, u # t, NEW q, PlaySet(u, q) PROVE playTurn'[t] = playTurn[t]
  BY <1>2, PlayTurnFields DEF PlaySet
<1>3. ASSUME NEW u \in PlayTurns, u # t, PlayStep(u) PROVE playTurn'[t].at = "adding"
  <2>1. ASSUME PlaySend(u) PROVE playTurn'[t].at = "adding"
    BY <1>3, <2>1, PlayTurnFields DEF PlaySend, PlayAborted, PlayTurnStates
  <2>2. CASE PlayRemove(u) \/ PlayBuy(u)
    BY <2>2 DEF PlayRemove, PlayBuy
  <2>3. CASE \/ PlayTold(u) \/ PlayShow(u) \/ PlayClose(u) \/ PlayBreak(u)
             \/ PlayCreate(u) \/ PlayEnd(u) \/ PlayAddMore(u) \/ PlayAdd(u) \/ PlayAdded(u)
    <3>1. \E q : PlaySet(u, q)
      BY <2>3 DEF PlayTold, PlayShow, PlayClose, PlayBreak, PlayCreate, PlayEnd, PlayAddMore,
         PlayAdd, PlayAdded, PlayReported
    <3> QED
      BY <1>2, <1>3, <3>1
  <2>4. CASE PlayLookup(u)
    <3>1. \E q : PlaySet(u, q)
      BY <2>4 DEF PlayLookup
    <3> QED
      BY <1>2, <1>3, <3>1
  <2> QED
    BY <1>3, <2>1, <2>2, <2>3, <2>4 DEF PlayStep
<1>4. ASSUME PlayStep(t), ~PlayAdded(t) PROVE playTurn'[t].at = "adding"
  <2>1. ~PlaySend(t) /\ ~PlayLookup(t) /\ ~PlayCreate(t) /\ ~PlayEnd(t) /\ ~PlayAddMore(t)
        /\ ~PlayAdd(t) /\ ~PlayRemove(t) /\ ~PlayBuy(t)
    BY DEF PlaySend, PlayLookup, PlayCreate, PlayEnd, PlayAddMore, PlayAdd, PlayRemove, PlayBuy
  <2>2. CASE PlayTold(t)
    BY <2>2, PlayTurnFields DEF PlayTold, PlaySet, PlayTurnStates
  <2>3. CASE PlayShow(t)
    BY <2>3, PlayTurnFields DEF PlayShow, PlaySet, PlayTurnStates
  <2>4. CASE PlayClose(t)
    <3>1. playTurn'[t] = PlayLeft(playTurn[t])
      BY <2>4, PlayTurnFields DEF PlayClose, PlaySet
    <3> QED
      BY <3>1, PlayTurnFields, PlayLeftIsTurn
  <2>5. CASE PlayBreak(t)
    <3> DEFINE turn == [playTurn[t] EXCEPT !.aborted = TRUE, !.due = 0]
    <3>1. turn \in PlayTurnStates /\ turn.at = "adding"
      BY PlayTurnFields, PlayFailedIsTurn
    <3>2. \/ PlaySet(t, PlayLeft(turn))
          \/ turn.at \in {"sent", "creating"} /\ PlaySet(t, PlayOver(turn))
      BY <2>5 DEF PlayBreak
    <3> HIDE DEF turn
    <3>3. playTurn'[t] = PlayLeft(turn)
      BY <3>1, <3>2, PlayTurnFields DEF PlaySet
    <3> QED
      BY <3>1, <3>3, PlayLeftIsTurn
  <2> QED
    BY <1>4, <2>1, <2>2, <2>3, <2>4, <2>5 DEF PlayStep
<1>5. ASSUME PlayStop \/ PlayNewChat PROVE playTurn'[t].at = "adding"
  <2>1. playTurn' = PlayAborted(playTurn)
    BY <1>5 DEF PlayStop, PlayNewChat
  <2>2. playTurn'[t] =
          [playTurn[t] EXCEPT !.aborted = playTurn[t].aborted \/ playTurn[t].open, !.due = 0]
    BY <2>1, PlayAborts
  <2> QED
    BY <2>2, PlayTurnFields DEF PlayTurnStates
<1>6. ASSUME NEW s \in PlayTurns, PlayExpire(s) PROVE playTurn'[t].at = "adding"
  BY <1>6 DEF PlayExpire
<1>7. CASE UNCHANGED playVars
  BY <1>7 DEF playVars
<1>8. CASE PlayNext
  BY <1>1, <1>3, <1>4, <1>5, <1>6, <1>8 DEF PlayNext
<1> QED
  BY <1>7, <1>8

\* When add_to_cart returns, the product is in the agent's cart, whatever other runs
\* of the agent did to the cart meanwhile.
THEOREM PlayAddReachesCart == PlaySpec => AddIsInCart
<1>1. PlayInv /\ [PlayNext]_playVars =>
        [\A t \in PlayTurns : playTurn[t].at = "adding" /\ playTurn'[t].at = "running" =>
           playItems'[playCart'[playTurn[t].agent]] > 0]_playVars
  BY PlayAddsEnd
<1>2. PlayInit => PlayInv /\ PlayScreenInv
  BY PlayInvInit, PlayScreenInit
<1>3. PlayInv /\ PlayScreenInv /\ [PlayNext]_playVars => PlayInv' /\ PlayScreenInv'
  BY PlayInvNext, PlayScreenNext
<1> QED
  BY <1>1, <1>2, <1>3, PTL DEF PlaySpec, AddIsInCart

-------------------------------------------------------------------------------
(* The subscriptions. *)

\* Every event but an update from active to active sets a status,
SubSets(e) == ~(e.type = "updated" /\ e.from = "active" /\ e.to = "active")

\* which does not depend on the row.
SubWrites(e) ==
  CASE e.type \in {"completed", "renewed"} -> "active"
    [] e.type = "failed" -> "past_due"
    [] e.type = "updated" ->
         IF e.to = "active" THEN "active" ELSE IF e.to = "past_due" THEN "past_due"
         ELSE "suspended"
    [] e.type = "deleted" -> "cancelled"
    [] e.type = "dispute" -> "suspended"

\* What the row is to say in the end.
SubTarget == IF subHeld THEN "suspended" ELSE SubRowOf(subStripe)

\* The last event in the queue that sets a status sets the right one; if there is none,
\* the row has it.
SubQueueLeadsThere ==
  /\ \A i \in 1 .. Len(subQueue) :
       (SubSets(subQueue[i]) /\ \A j \in (i + 1) .. Len(subQueue) : ~SubSets(subQueue[j])) =>
         SubWrites(subQueue[i]) = SubTarget
  /\ (\A i \in 1 .. Len(subQueue) : ~SubSets(subQueue[i])) => subRow = SubTarget

\* Checkout sends the first event, and nothing else is handled before it; one that
\* comes again finds the row it made.
SubCheckoutIsFirst ==
  /\ subStripe = "none" => subQueue = <<>> /\ subRow = "none" /\ ~subHeld
  /\ subStripe # "none" /\ subRow = "none" =>
       subQueue # <<>> /\ subQueue[1].type = "completed"
  /\ \A i \in 1 .. Len(subQueue) :
       /\ subQueue[i].type = "completed" => i = 1 /\ subRow \in {"none", "active"}
       /\ subQueue[i].type = "updated" => subQueue[i].to # "canceled"

SubInv == SubTypeOK /\ SubQueueLeadsThere /\ SubCheckoutIsFirst

\* Nobody has subscribed yet.
LEMMA SubInvInit == SubInit => SubInv
<1> SUFFICES ASSUME SubInit PROVE SubInv
  OBVIOUS
<1>1. Len(subQueue) = 0 /\ subQueue \in Seq(SubEvents)
  BY DEF SubInit
<1>2. SubTypeOK
  <2>1. 0 \in 0 .. SubMaxEvents
    BY SubAssumption DEF SubAssumption
  <2> QED
    BY <1>1, <2>1 DEF SubInit, SubTypeOK
<1>3. SubQueueLeadsThere
  BY <1>1 DEF SubInit, SubQueueLeadsThere, SubTarget, SubRowOf
<1>4. SubCheckoutIsFirst
  BY <1>1 DEF SubInit, SubCheckoutIsFirst
<1> QED
  BY <1>2, <1>3, <1>4 DEF SubInv

\* What is sent after checkout and sets, at its end, the status there is to be, or
\* nothing where that stays, keeps the invariant.
LEMMA SubSendKeepsInv ==
  ASSUME SubInv, NEW events \in Seq(SubEvents), Len(events) \in {1, 2}, SubSend(events),
         subStripe # "none", subStripe' \in SubStatuses, subHeld' \in BOOLEAN,
         \A k \in 1 .. Len(events) :
           /\ events[k].type # "completed"
           /\ events[k].type = "updated" => events[k].to # "canceled",
         \/ /\ SubSets(events[Len(events)])
            /\ SubWrites(events[Len(events)]) = SubTarget'
         \/ Len(events) = 1 /\ ~SubSets(events[1]) /\ SubTarget' = SubTarget
  PROVE  SubInv'
<1>1. PICK n \in Nat, m \in {1, 2} : n = Len(subQueue) /\ m = Len(events)
  BY DEF SubInv, SubTypeOK
<1>2. /\ subQueue' \in Seq(SubEvents) /\ Len(subQueue') = n + m
      /\ \A i \in 1 .. n : subQueue'[i] = subQueue[i]
      /\ \A k \in 1 .. m : subQueue'[n + k] = events[k]
      /\ subQueue \in Seq(SubEvents) /\ UNCHANGED subRow
  BY <1>1 DEF SubSend, SubInv, SubTypeOK
<1>3. SubTypeOK'
  <2>1. subSent' \in 0 .. SubMaxEvents
    BY <1>1, SubAssumption DEF SubSend, SubInv, SubTypeOK, SubAssumption
  <2> QED
    BY <1>2, <2>1 DEF SubInv, SubTypeOK
<1>4. \A i \in 1 .. (n + m) : i \in 1 .. n \/ \E k \in 1 .. m : i = n + k
  <2>1. ASSUME NEW i \in 1 .. (n + m), i \notin 1 .. n PROVE i - n \in 1 .. m /\ i = n + (i - n)
    BY <1>1, <2>1
  <2> QED
    BY <2>1
<1>5. n + m \in 1 .. Len(subQueue') /\ subQueue'[n + m] = events[m]
  <2>1. m \in 1 .. m /\ n + m \in 1 .. (n + m)
    BY <1>1
  <2> QED
    BY <1>2, <2>1
<1>6. SubQueueLeadsThere'
  <2>1. CASE SubSets(events[m]) /\ SubWrites(events[m]) = SubTarget'
    <3>1. ASSUME NEW i \in 1 .. Len(subQueue'), SubSets(subQueue'[i]),
                 \A j \in (i + 1) .. Len(subQueue') : ~SubSets(subQueue'[j])
          PROVE  SubWrites(subQueue'[i]) = SubTarget'
      <4>1. i = n + m
        <5>1. i # n + m => n + m \in (i + 1) .. Len(subQueue')
          BY <1>1, <1>2
        <5> QED
          BY <1>5, <2>1, <3>1, <5>1
      <4> QED
        BY <1>5, <2>1, <4>1
    <3>2. ~(\A i \in 1 .. Len(subQueue') : ~SubSets(subQueue'[i]))
      BY <1>5, <2>1
    <3> QED
      BY <3>1, <3>2 DEF SubQueueLeadsThere, SubSets, SubWrites
  <2>2. CASE m = 1 /\ ~SubSets(events[1]) /\ SubTarget' = SubTarget
    <3>1. ASSUME NEW i \in 1 .. Len(subQueue'), SubSets(subQueue'[i]),
                 \A j \in (i + 1) .. Len(subQueue') : ~SubSets(subQueue'[j])
          PROVE  SubWrites(subQueue'[i]) = SubTarget'
      <4>1. i \in 1 .. n
        BY <1>2, <1>4, <2>2, <3>1
      <4>2. \A j \in (i + 1) .. n : ~SubSets(subQueue[j])
        BY <1>1, <1>2, <3>1, <4>1
      <4> QED
        BY <1>1, <1>2, <2>2, <3>1, <4>1, <4>2 DEF SubInv, SubQueueLeadsThere
    <3>2. ASSUME \A i \in 1 .. Len(subQueue') : ~SubSets(subQueue'[i])
          PROVE  subRow' = SubTarget'
      <4>1. \A i \in 1 .. n : ~SubSets(subQueue[i])
        BY <1>1, <1>2, <3>2
      <4> QED
        BY <1>1, <1>2, <2>2, <4>1 DEF SubInv, SubQueueLeadsThere
    <3> QED
      BY <3>1, <3>2 DEF SubQueueLeadsThere, SubSets, SubWrites
  <2> QED
    BY <1>1, <2>1, <2>2
<1>7. SubCheckoutIsFirst'
  <2>1. subStripe' # "none"
    BY DEF SubStatuses
  <2>2. subRow = "none" => n # 0 /\ subQueue'[1].type = "completed" /\ subQueue' # <<>>
    <3>1. subRow = "none" => subQueue # <<>> /\ subQueue[1].type = "completed"
      BY DEF SubInv, SubCheckoutIsFirst
    <3>2. subQueue # <<>> => n # 0 /\ 1 \in 1 .. n
      BY <1>1, <1>2
    <3> QED
      BY <1>2, <1>5, <3>1, <3>2
  <2>3. ASSUME NEW i \in 1 .. Len(subQueue')
        PROVE  /\ subQueue'[i].type = "completed" => i = 1 /\ subRow' \in {"none", "active"}
               /\ subQueue'[i].type = "updated" => subQueue'[i].to # "canceled"
    <3>1. i \in 1 .. n \/ \E k \in 1 .. m : i = n + k
      BY <1>2, <1>4
    <3>2. CASE i \in 1 .. n
      <4>1. subQueue'[i] = subQueue[i] /\ i \in 1 .. Len(subQueue)
        BY <1>1, <1>2, <3>2
      <4> QED
        BY <1>2, <4>1 DEF SubInv, SubCheckoutIsFirst
    <3>3. ASSUME NEW k \in 1 .. m, i = n + k
          PROVE  /\ subQueue'[i].type # "completed"
                 /\ subQueue'[i].type = "updated" => subQueue'[i].to # "canceled"
      <4>1. subQueue'[i] = events[k] /\ k \in 1 .. Len(events)
        BY <1>1, <1>2, <3>3
      <4> QED
        BY <4>1
    <3> QED
      BY <3>1, <3>2, <3>3
  <2> QED
    BY <1>2, <2>1, <2>2, <2>3 DEF SubCheckoutIsFirst
<1> QED
  BY <1>3, <1>6, <1>7 DEF SubInv

\* One event is sent,
LEMMA SubSendsOne ==
  ASSUME SubInv, NEW e \in SubEvents, SubSend(<<e>>),
         subStripe # "none", subStripe' \in SubStatuses, subHeld' \in BOOLEAN,
         e.type # "completed", e.type = "updated" => e.to # "canceled",
         (SubSets(e) /\ SubWrites(e) = SubTarget') \/ (~SubSets(e) /\ SubTarget' = SubTarget)
  PROVE  SubInv'
<1> DEFINE events == <<e>>
<1>1. events \in Seq(SubEvents) /\ Len(events) = 1 /\ events[1] = e /\ SubSend(events)
  OBVIOUS
<1> HIDE DEF events
<1>2. \A k \in 1 .. Len(events) : events[k] = e
  BY <1>1
<1> QED
  BY <1>1, <1>2, SubSendKeepsInv

\* or two, of which the second sets a status.
LEMMA SubSendsTwo ==
  ASSUME SubInv, NEW e \in SubEvents, NEW f \in SubEvents, SubSend(<<e>> \o <<f>>),
         subStripe # "none", subStripe' \in SubStatuses, subHeld' \in BOOLEAN,
         e.type \notin {"completed", "updated"},
         f.type = "updated", f.to # "canceled",
         SubSets(f), SubWrites(f) = SubTarget'
  PROVE  SubInv'
<1> DEFINE events == <<e>> \o <<f>>
<1>1. /\ events \in Seq(SubEvents) /\ Len(events) = 2 /\ events[1] = e /\ events[2] = f
      /\ SubSend(events)
  OBVIOUS
<1> HIDE DEF events
<1>2. \A k \in 1 .. Len(events) : events[k] = e \/ events[k] = f
  BY <1>1
<1> QED
  BY <1>1, <1>2, SubSendKeepsInv

\* What happens at Stripe keeps the invariant.
LEMMA SubStripeKeepsInv ==
  ASSUME SubInv,
         SubCheckout \/ SubRenew \/ SubFail \/ SubEdit \/ SubCancel \/ SubDispute
  PROVE  SubInv'
<1>0. /\ subStripe \in SubStatuses \cup {"none"} /\ subHeld \in BOOLEAN
      /\ {[type |-> "renewed"], [type |-> "failed"], [type |-> "deleted"],
          [type |-> "dispute"], [type |-> "completed"]} \subseteq SubEvents
      /\ \A f, t \in SubStatuses :
           /\ SubUpdated(f, t) \in SubEvents /\ SubUpdated(f, t).type = "updated"
           /\ SubUpdated(f, t).from = f /\ SubUpdated(f, t).to = t
  BY DEF SubInv, SubTypeOK, SubEvents, SubUpdated
<1>1. CASE SubCheckout
  <2>1. /\ subQueue = <<>> /\ subRow = "none" /\ ~subHeld /\ subStripe' = "active"
        /\ subHeld' = subHeld /\ SubSend(<<[type |-> "completed"]>>)
    BY <1>1 DEF SubCheckout, SubInv, SubCheckoutIsFirst
  <2>2. PICK e \in SubEvents : e = [type |-> "completed"]
    BY <1>0
  <2>3. /\ subQueue' = <<e>> /\ UNCHANGED subRow /\ subQueue' \in Seq(SubEvents)
        /\ Len(subQueue') = 1 /\ subQueue'[1] = e /\ e.type = "completed"
    BY <2>1, <2>2 DEF SubSend
  <2>4. SubTypeOK'
    <3>1. subSent' \in 0 .. SubMaxEvents
      BY <2>1, <2>2, SubAssumption DEF SubSend, SubInv, SubTypeOK, SubAssumption
    <3> QED
      BY <2>1, <2>3, <3>1 DEF SubInv, SubTypeOK, SubStatuses
  <2>5. SubSets(e) /\ SubWrites(e) = "active" /\ SubTarget' = "active"
    BY <2>1, <2>3 DEF SubSets, SubWrites, SubTarget, SubRowOf
  <2>6. SubQueueLeadsThere'
    <3>1. \A i \in 1 .. Len(subQueue') : SubWrites(subQueue'[i]) = SubTarget'
      BY <2>3, <2>5
    <3>2. ~(\A i \in 1 .. Len(subQueue') : ~SubSets(subQueue'[i]))
      BY <2>3, <2>5
    <3> QED
      BY <3>1, <3>2 DEF SubQueueLeadsThere, SubSets, SubWrites
  <2>7. SubCheckoutIsFirst'
    BY <2>1, <2>3 DEF SubCheckoutIsFirst
  <2> QED
    BY <2>4, <2>6, <2>7 DEF SubInv
<1>2. CASE SubRenew
  <2>1. /\ subStripe \in {"active", "past_due", "unpaid"} /\ subStripe' = "active"
        /\ subHeld' = FALSE /\ SubTarget' = "active"
    BY <1>2 DEF SubRenew, SubTarget, SubRowOf
  <2>2. CASE subStripe = "active"
    <3>1. PICK e \in SubEvents : e = [type |-> "renewed"]
      BY <1>0
    <3>2. SubSend(<<e>>)
      <4>1. SubSend(<<e>> \o <<>>) /\ <<e>> \o <<>> = <<e>>
        BY <1>2, <2>2, <3>1 DEF SubRenew
      <4> QED
        BY <4>1
    <3>3. SubSets(e) /\ SubWrites(e) = "active" /\ e.type = "renewed"
      BY <3>1 DEF SubSets, SubWrites
    <3> QED
      BY <2>1, <3>2, <3>3, SubSendsOne DEF SubStatuses
  <2>3. CASE subStripe # "active"
    <3>1. PICK e \in SubEvents, f \in SubEvents :
            e = [type |-> "renewed"] /\ f = SubUpdated(subStripe, "active")
      BY <1>0, <2>1 DEF SubStatuses
    <3>2. SubSend(<<e>> \o <<f>>)
      BY <1>2, <2>3, <3>1 DEF SubRenew
    <3>3. /\ e.type = "renewed" /\ f.type = "updated" /\ f.from # "active" /\ f.to = "active"
      BY <1>0, <2>1, <2>3, <3>1 DEF SubStatuses
    <3>4. SubSets(f) /\ SubWrites(f) = "active"
      BY <3>3 DEF SubSets, SubWrites
    <3> QED
      BY <2>1, <3>2, <3>3, <3>4, SubSendsTwo DEF SubStatuses
  <2> QED
    BY <2>2, <2>3
<1>3. CASE SubFail
  <2>1. PICK to \in {"past_due", "unpaid"} :
          /\ subStripe \in {"active", "past_due"} /\ subHeld' = FALSE
          /\ subStripe = "active" => to = "past_due"
          /\ subStripe' = to
          /\ SubSend(<<[type |-> "failed"]>> \o
               IF to = subStripe THEN <<>> ELSE <<SubUpdated(subStripe, to)>>)
    BY <1>3 DEF SubFail
  <2>2. SubTarget' = IF to = "past_due" THEN "past_due" ELSE "suspended"
    BY <2>1 DEF SubTarget, SubRowOf
  <2>3. PICK e \in SubEvents, f \in SubEvents :
          e = [type |-> "failed"] /\ f = SubUpdated(subStripe, to)
    BY <1>0, <2>1 DEF SubStatuses
  <2>4. /\ e.type = "failed" /\ f.type = "updated" /\ f.from = subStripe /\ f.to = to
    BY <1>0, <2>1, <2>3 DEF SubStatuses
  <2>5. CASE to = subStripe
    <3>1. SubSend(<<e>>)
      <4>1. SubSend(<<e>> \o <<>>) /\ <<e>> \o <<>> = <<e>>
        BY <2>1, <2>3, <2>5
      <4> QED
        BY <4>1
    <3>2. SubSets(e) /\ SubWrites(e) = "past_due" /\ to = "past_due"
      BY <2>1, <2>4, <2>5 DEF SubSets, SubWrites
    <3> QED
      BY <2>1, <2>2, <2>4, <3>1, <3>2, SubSendsOne DEF SubStatuses
  <2>6. CASE to # subStripe
    <3>1. SubSend(<<e>> \o <<f>>)
      BY <2>1, <2>3, <2>6
    <3>2. SubSets(f) /\ SubWrites(f) = IF to = "past_due" THEN "past_due" ELSE "suspended"
      BY <2>1, <2>4 DEF SubSets, SubWrites
    <3> QED
      BY <2>1, <2>2, <2>4, <3>1, <3>2, SubSendsTwo DEF SubStatuses
  <2> QED
    BY <2>5, <2>6
<1>4. CASE SubEdit
  <2>1. /\ subStripe \in {"active", "past_due", "unpaid"} /\ subStripe' = subStripe
        /\ subHeld' = (subHeld /\ subStripe = "active")
        /\ SubSend(<<SubUpdated(subStripe, subStripe)>>)
    BY <1>4 DEF SubEdit
  <2>2. PICK e \in SubEvents : e = SubUpdated(subStripe, subStripe)
    BY <1>0, <2>1 DEF SubStatuses
  <2>3. /\ SubSend(<<e>>) /\ e.type = "updated" /\ e.from = subStripe /\ e.to = subStripe
    BY <1>0, <2>1, <2>2 DEF SubStatuses
  <2>4. CASE subStripe = "active"
    <3>1. ~SubSets(e) /\ SubTarget' = SubTarget
      BY <1>0, <2>1, <2>3, <2>4 DEF SubSets, SubTarget
    <3> QED
      BY <1>0, <2>1, <2>3, <2>4, <3>1, SubSendsOne DEF SubStatuses
  <2>5. CASE subStripe # "active"
    <3>1. SubSets(e) /\ SubWrites(e) = SubTarget'
      BY <2>1, <2>3, <2>5 DEF SubSets, SubWrites, SubTarget, SubRowOf
    <3> QED
      BY <2>1, <2>3, <2>5, <3>1, SubSendsOne DEF SubStatuses
  <2> QED
    BY <2>4, <2>5
<1>5. CASE SubCancel
  <2>1. PICK e \in SubEvents : e = [type |-> "deleted"]
    BY <1>0
  <2>2. /\ SubSend(<<e>>) /\ subStripe # "none" /\ subStripe' = "canceled" /\ subHeld' = FALSE
    BY <1>5, <2>1 DEF SubCancel
  <2>3. /\ SubSets(e) /\ SubWrites(e) = "cancelled" /\ SubTarget' = "cancelled"
        /\ e.type = "deleted"
    BY <2>1, <2>2 DEF SubSets, SubWrites, SubTarget, SubRowOf
  <2> QED
    BY <2>2, <2>3, SubSendsOne DEF SubStatuses
<1>6. CASE SubDispute
  <2>1. PICK e \in SubEvents : e = [type |-> "dispute"]
    BY <1>0
  <2>2. /\ SubSend(<<e>>) /\ subStripe # "none" /\ subStripe' = subStripe /\ subHeld' = TRUE
    BY <1>6, <2>1 DEF SubDispute
  <2>3. /\ SubSets(e) /\ SubWrites(e) = "suspended" /\ SubTarget' = "suspended"
        /\ e.type = "dispute"
    BY <2>1, <2>2 DEF SubSets, SubWrites, SubTarget
  <2> QED
    BY <1>0, <2>2, <2>3, SubSendsOne
<1> QED
  BY <1>1, <1>2, <1>3, <1>4, <1>5, <1>6

\* An event is handled, and forgotten or not; or it is given up.
LEMMA SubWebhookKeepsInv ==
  ASSUME SubInv, SubHandle \/ SubGiveUp
  PROVE  SubInv'
<1>1. PICK n \in Nat : n = Len(subQueue)
  BY DEF SubInv, SubTypeOK
<1>2. /\ subQueue \in Seq(SubEvents) /\ subQueue # <<>> /\ n # 0 /\ 1 \in 1 .. n
      /\ UNCHANGED <<subStripe, subHeld, subSent>> /\ subStripe # "none"
  BY <1>1 DEF SubHandle, SubGiveUp, SubInv, SubTypeOK, SubCheckoutIsFirst
<1>3. PICK e \in SubEvents : e = subQueue[1] /\ e = Head(subQueue)
  BY <1>2
<1>4. /\ Tail(subQueue) \in Seq(SubEvents) /\ Len(Tail(subQueue)) = n - 1
      /\ \A i \in 1 .. (n - 1) : Tail(subQueue)[i] = subQueue[i + 1]
  BY <1>1, <1>2
<1>5. /\ SubTarget' = SubTarget
      /\ subRow \in {"none", "active", "past_due", "suspended", "cancelled"}
      /\ e.type = "updated" => e.to # "canceled" /\ e.to \in SubStatuses
      /\ e.type \in {"completed", "renewed", "failed", "updated", "deleted", "dispute"}
      /\ e.type = "completed" => subRow \in {"none", "active"}
  <2>1. e.type = "updated" => e.to \in SubStatuses
    BY DEF SubEvents
  <2>2. e.type \in {"completed", "renewed", "failed", "updated", "deleted", "dispute"}
    BY DEF SubEvents
  <2> QED
    BY <1>1, <1>2, <1>3, <2>1, <2>2 DEF SubTarget, SubInv, SubTypeOK, SubCheckoutIsFirst
<1>6. /\ subRow' \in {"active", "past_due", "suspended", "cancelled"}
      /\ SubSets(e) => subRow' = SubWrites(e)
      /\ ~SubSets(e) => subRow' = subRow
      /\ e.type = "completed" => subRow' = "active"
  <2>1. CASE SubHandle
    <3>1. /\ ~SubThrows(e)
          /\ subRow' = IF SubInserts(e) \/ subRow # "none" THEN SubApply(e) ELSE subRow
      BY <1>3, <2>1 DEF SubHandle
    <3>2. subRow = "none" => SubInserts(e)
      BY <1>2, <1>3 DEF SubInserts, SubInv, SubCheckoutIsFirst
    <3>3. subRow' = SubApply(e)
      BY <3>1, <3>2
    <3>4. SubSets(e) => SubApply(e) = SubWrites(e)
      BY <1>5 DEF SubApply, SubWrites, SubSets, SubStatuses
    <3>5. ~SubSets(e) => SubApply(e) = subRow /\ subRow # "none"
      BY <3>2 DEF SubApply, SubSets, SubInserts
    <3>6. SubSets(e) => SubWrites(e) \in {"active", "past_due", "suspended", "cancelled"}
      BY <1>5 DEF SubWrites
    <3>7. e.type = "completed" => SubApply(e) = "active"
      BY DEF SubApply
    <3> QED
      BY <1>5, <3>3, <3>4, <3>5, <3>6, <3>7
  <2>2. CASE SubGiveUp
    <3>1. e.type = "completed" /\ subRow # "none" /\ subRow' = subRow
      BY <1>3, <2>2 DEF SubGiveUp, SubThrows, SubInserts
    <3>2. SubSets(e) /\ SubWrites(e) = "active"
      BY <3>1 DEF SubSets, SubWrites
    <3> QED
      BY <1>5, <3>1, <3>2
  <2> QED
    BY <2>1, <2>2
<1>7. subQueue' = Tail(subQueue) \/ subQueue' = subQueue
  BY DEF SubHandle, SubGiveUp
<1>8. SubTypeOK'
  BY <1>2, <1>4, <1>6, <1>7 DEF SubInv, SubTypeOK
<1>9. /\ \A i \in 1 .. n :
           (SubSets(subQueue[i]) /\ \A j \in (i + 1) .. n : ~SubSets(subQueue[j])) =>
             SubWrites(subQueue[i]) = SubTarget
      /\ (\A i \in 1 .. n : ~SubSets(subQueue[i])) => subRow = SubTarget
  BY <1>1 DEF SubInv, SubQueueLeadsThere
<1>10. SubQueueLeadsThere'
  <2>1. CASE subQueue' = subQueue
    <3>1. (\A i \in 1 .. n : ~SubSets(subQueue[i])) => subRow' = SubTarget
      BY <1>2, <1>3, <1>6, <1>9
    <3> QED
      <4>1. \A i \in 1 .. n : subQueue'[i] = subQueue[i]
        BY <2>1
      <4>2. Len(subQueue') = n
        BY <1>1, <2>1
      <4>3. ASSUME NEW i \in 1 .. n, SubSets(subQueue'[i]),
                   \A j \in (i + 1) .. n : ~SubSets(subQueue'[j])
            PROVE  SubWrites(subQueue'[i]) = SubTarget'
        BY <1>5, <1>9, <2>1, <4>3
      <4>4. (\A i \in 1 .. n : ~SubSets(subQueue'[i])) => subRow' = SubTarget'
        BY <1>5, <2>1, <3>1
      <4> QED
        BY <4>2, <4>3, <4>4 DEF SubQueueLeadsThere, SubSets, SubWrites
  <2>2. CASE subQueue' = Tail(subQueue)
    <3>1. ASSUME NEW i \in 1 .. (n - 1), SubSets(subQueue'[i]),
                 \A j \in (i + 1) .. (n - 1) : ~SubSets(subQueue'[j])
          PROVE  SubWrites(subQueue'[i]) = SubTarget'
      <4>1. i + 1 \in 1 .. n /\ subQueue'[i] = subQueue[i + 1]
        BY <1>4, <2>2
      <4>2. ASSUME NEW j \in ((i + 1) + 1) .. n PROVE ~SubSets(subQueue[j])
        <5>1. j - 1 \in (i + 1) .. (n - 1) /\ j - 1 \in 1 .. (n - 1) /\ (j - 1) + 1 = j
          BY <4>2
        <5>2. subQueue'[j - 1] = subQueue[(j - 1) + 1]
          BY <1>4, <2>2, <5>1
        <5> QED
          BY <3>1, <5>1, <5>2
      <4> QED
        BY <1>5, <1>9, <3>1, <4>1, <4>2
    <3>2. ASSUME \A i \in 1 .. (n - 1) : ~SubSets(subQueue'[i])
          PROVE  subRow' = SubTarget'
      <4>1. ASSUME NEW j \in 2 .. n PROVE ~SubSets(subQueue[j])
        <5>1. j - 1 \in 1 .. (n - 1) /\ (j - 1) + 1 = j
          BY <4>1
        <5>2. subQueue'[j - 1] = subQueue[(j - 1) + 1]
          BY <1>4, <2>2, <5>1
        <5> QED
          BY <3>2, <5>1, <5>2
      <4>2. CASE SubSets(e)
        BY <1>2, <1>3, <1>5, <1>6, <1>9, <4>1, <4>2
      <4>3. CASE ~SubSets(e)
        <5>1. \A i \in 1 .. n : i = 1 \/ i \in 2 .. n
          OBVIOUS
        <5> QED
          BY <1>3, <1>5, <1>6, <1>9, <4>1, <4>3, <5>1
      <4> QED
        BY <4>2, <4>3
    <3>3. Len(subQueue') = n - 1
      BY <1>4, <2>2
    <3> QED
      BY <3>1, <3>2, <3>3 DEF SubQueueLeadsThere, SubSets, SubWrites
  <2> QED
    BY <1>7, <2>1, <2>2
<1>11. SubCheckoutIsFirst'
  <2>1. ASSUME NEW i \in 1 .. Len(subQueue')
        PROVE  /\ subQueue'[i].type = "completed" => i = 1 /\ subRow' \in {"none", "active"}
               /\ subQueue'[i].type = "updated" => subQueue'[i].to # "canceled"
    <3>1. CASE subQueue' = subQueue
      BY <1>1, <1>3, <1>6, <3>1 DEF SubInv, SubCheckoutIsFirst
    <3>2. CASE subQueue' = Tail(subQueue)
      <4>1. i \in 1 .. (n - 1) /\ i + 1 \in 1 .. n /\ i + 1 # 1 /\ subQueue'[i] = subQueue[i + 1]
        BY <1>4, <3>2
      <4> QED
        BY <1>1, <4>1 DEF SubInv, SubCheckoutIsFirst
    <3> QED
      BY <1>7, <3>1, <3>2
  <2> QED
    BY <1>2, <1>6, <2>1 DEF SubCheckoutIsFirst
<1> QED
  BY <1>8, <1>10, <1>11 DEF SubInv

\* No step leads out of the invariant.
LEMMA SubInvNext == SubInv /\ [SubNext]_subVars => SubInv'
<1>1. ASSUME SubInv, SubNext PROVE SubInv'
  BY <1>1, SubStripeKeepsInv, SubWebhookKeepsInv DEF SubNext
<1>2. ASSUME SubInv, UNCHANGED subVars PROVE SubInv'
  <2>1. UNCHANGED <<subStripe, subHeld, subQueue, subSent, subRow>>
    BY <1>2 DEF subVars
  <2>2. SubTypeOK' /\ SubCheckoutIsFirst'
    BY <1>2, <2>1 DEF SubInv, SubTypeOK, SubCheckoutIsFirst
  <2>3. SubTarget' = SubTarget
    BY <2>1 DEF SubTarget
  <2>4. SubQueueLeadsThere'
    <3>1. SubQueueLeadsThere
      BY <1>2 DEF SubInv
    <3> QED
      BY <2>1, <2>3, <3>1 DEF SubQueueLeadsThere
  <2> QED
    BY <2>2, <2>4 DEF SubInv
<1> QED
  BY <1>1, <1>2

\* When every event was delivered, however often, the row has the status of the
\* subscription: the last event to set one sets that, and those that come again, or are
\* refused, do not change it.
THEOREM SubStatusSettles == SubSpec => [](SubTypeOK /\ StatusSettles)
<1>1. SubInv => SubTypeOK /\ StatusSettles
  <2> SUFFICES ASSUME SubInv PROVE SubTypeOK /\ StatusSettles
    OBVIOUS
  <2>1. subQueue = <<>> => subRow = SubTarget
    BY DEF SubInv, SubQueueLeadsThere
  <2> QED
    BY <2>1 DEF SubInv, StatusSettles, SubTarget
<1> QED
  BY <1>1, SubInvInit, SubInvNext, PTL DEF SubSpec

-------------------------------------------------------------------------------
(* The chain. *)

ChainFrames == [id : ChainIds, depth : 0 .. ChainMaxDepth, stamp : ChainIds]

\* Ids are given out in order and each once; a step's agent reports under its own.
ChainIdsClimb ==
  /\ \A i \in 1 .. Len(chainStack) : chainStack[i].id <= chainIssued
  /\ \A i, j \in 1 .. Len(chainStack) : i < j => chainStack[i].id < chainStack[j].id
  /\ chainStack # <<>> => chainStack[1].stamp = chainStack[1].id
  /\ Len(chainStack) <= ChainMaxStack

\* Agents are at work only while the chain runs, and then every step so far succeeded.
ChainRunsOn ==
  /\ chainStack # <<>> => chainEnd = "running"
  /\ chainEnd = "running" =>
       /\ Len(chainResults) < ChainLength
       /\ \A i \in 1 .. Len(chainResults) : chainResults[i] = "succeeded"

ChainInv ==
  /\ ChainTypeOK /\ ChainIdsClimb /\ ChainRunsOn
  /\ ChainHalts /\ SpansAreNested /\ StepsNameTheirReports

\* No step has begun.
LEMMA ChainInvInit == ChainInit => ChainInv
<1> SUFFICES ASSUME ChainInit PROVE ChainInv
  OBVIOUS
<1>1. Len(chainStack) = 0 /\ Len(chainResults) = 0 /\ DOMAIN chainStack = {}
  BY DEF ChainInit
<1>2. ChainTypeOK
  BY ChainAssumption DEF ChainInit, ChainTypeOK, ChainAssumption
<1>3. ChainIdsClimb /\ ChainRunsOn
  BY <1>1, ChainAssumption DEF ChainInit, ChainIdsClimb, ChainRunsOn, ChainAssumption
<1>4. ChainHalts /\ SpansAreNested /\ StepsNameTheirReports
  BY <1>1, ChainAssumption
  DEF ChainInit, ChainHalts, SpansAreNested, StepsNameTheirReports, ChainAssumption
<1> QED
  BY <1>2, <1>3, <1>4 DEF ChainInv

\* The agents at work, by their fields; the last of them is at the end.
LEMMA ChainFrameFields ==
  ASSUME ChainInv, NEW n, n = Len(chainStack)
  PROVE  /\ n \in Nat /\ chainStack \in Seq(ChainFrames) /\ DOMAIN chainStack = 1 .. n
         /\ chainStack = <<>> <=> n = 0
         /\ \A i \in 1 .. n : /\ chainStack[i] \in ChainFrames
                              /\ chainStack[i].id \in ChainIds /\ chainStack[i].id \in Nat
                              /\ chainStack[i].id <= chainIssued
         /\ n # 0 => Last(chainStack) = chainStack[n] /\ n \in 1 .. n
         /\ chainIssued \in Nat
<1>1. chainStack \in Seq(ChainFrames)
  BY DEF ChainInv, ChainTypeOK, ChainFrames
<1>2. n \in Nat /\ DOMAIN chainStack = 1 .. n /\ (chainStack = <<>> <=> n = 0)
  BY <1>1, LenProperties, EmptySeq
<1>3. \A i \in 1 .. n : chainStack[i] \in ChainFrames
  BY <1>1, ElementOfSeq
<1>4. \A f \in ChainFrames : f.id \in ChainIds /\ f.id \in Nat
  BY ChainAssumption DEF ChainFrames, ChainIds, ChainAssumption
<1>5. \A i \in 1 .. n : chainStack[i].id <= chainIssued
  BY DEF ChainInv, ChainIdsClimb
<1>6. chainIssued \in Nat
  BY DEF ChainInv, ChainTypeOK
<1> QED
  BY <1>1, <1>2, <1>3, <1>4, <1>5, <1>6 DEF Last

\* An agent is invoked, by the chain or by another agent.
LEMMA ChainInvokeKeepsInv ==
  ASSUME ChainInv, ChainStep \/ ChainDelegate
  PROVE  ChainInv'
<1>1. PICK n \in Nat, k \in Nat :
        n = Len(chainStack) /\ k = chainIssued /\ k < ChainMaxCalls /\ n < ChainMaxStack
  BY ChainAssumption
  DEF ChainStep, ChainDelegate, ChainInvoke, ChainInv, ChainTypeOK, ChainAssumption
<1>2. /\ ChainMaxDepth \in Nat /\ ChainMaxStack \in Nat /\ ChainMaxCalls \in Nat
      /\ chainStack \in Seq(ChainFrames) /\ k + 1 \in ChainIds
  BY <1>1, ChainAssumption, ChainFrameFields DEF ChainAssumption, ChainIds
<1>3. /\ chainEnd = "running"
      /\ UNCHANGED <<chainReports, chainResults, chainEnd>>
      /\ \E d \in 0 .. ChainMaxDepth : ChainInvoke(d)
  <2>1. CASE ChainStep
    BY <1>2, <2>1 DEF ChainStep
  <2>2. CASE ChainDelegate
    <3>1. Last(chainStack) \in ChainFrames
      BY <1>1, <2>2, ChainFrameFields DEF ChainDelegate
    <3> QED
      BY <2>2, <3>1 DEF ChainDelegate, ChainInv, ChainRunsOn, ChainFrames
  <2> QED
    BY <2>1, <2>2
<1>4. PICK d \in Int : d \in 0 .. ChainMaxDepth /\ ChainInvoke(d)
  BY <1>3
<1>5. ChainStamp \in ChainIds \cup {0} /\ (n = 0 => ChainStamp = 0)
  <2>1. n # 0 => Last(chainStack) \in ChainFrames
    BY <1>1, ChainFrameFields
  <2>2. chainStack = <<>> <=> n = 0
    BY <1>1, ChainFrameFields
  <2> QED
    BY <2>1, <2>2 DEF ChainStamp, ChainFrames
<1>6. PICK f \in ChainFrames :
        /\ chainStack' = Append(chainStack, f)
        /\ f.id = k + 1 /\ (n = 0 => f.stamp = k + 1)
  <2>1. PICK e \in {0, d + 1} :
          chainStack' = Append(chainStack,
            [id |-> k + 1, depth |-> e, stamp |-> ChainWrapped(ChainStamp, k + 1)])
    BY <1>1, <1>4 DEF ChainInvoke
  <2>2. e \in 0 .. ChainMaxDepth
    BY <1>2, <1>4, <2>1 DEF ChainInvoke, ChainMayInvoke
  <2>3. PICK p \in ChainIds :
          p = ChainWrapped(ChainStamp, k + 1) /\ (n = 0 => p = k + 1)
    BY <1>2, <1>5 DEF ChainWrapped
  <2>4. [id |-> k + 1, depth |-> e, stamp |-> p] \in ChainFrames
    BY <1>2, <2>2 DEF ChainFrames
  <2> QED
    BY <2>1, <2>3, <2>4
<1>7. /\ chainStack' \in Seq(ChainFrames) /\ Len(chainStack') = n + 1
      /\ \A i \in 1 .. n : chainStack'[i] = chainStack[i]
      /\ chainStack'[n + 1] = f
  BY <1>1, <1>2, <1>6, AppendProperties
<1>8. chainIssued' = k + 1 /\ chainSpans' = chainSpans \cup {k + 1}
  BY <1>1, <1>4 DEF ChainInvoke
<1>9. ChainTypeOK'
  <2>1. chainIssued' \in 0 .. ChainMaxCalls /\ chainSpans' \subseteq ChainIds
    BY <1>1, <1>2, <1>8 DEF ChainInv, ChainTypeOK
  <2> QED
    BY <1>3, <1>7, <2>1 DEF ChainInv, ChainTypeOK, ChainFrames
<1>10. \A i \in 1 .. n : chainStack[i].id \in ChainIds /\ chainStack[i].id <= k
  BY <1>1, ChainFrameFields
<1>11. ChainIdsClimb'
  <2>1. \A i \in 1 .. Len(chainStack') : chainStack'[i].id <= chainIssued'
    BY <1>1, <1>6, <1>7, <1>8, <1>10 DEF ChainIds
  <2>2. ASSUME NEW i \in 1 .. Len(chainStack'), NEW j \in 1 .. Len(chainStack'), i < j
        PROVE  chainStack'[i].id < chainStack'[j].id
    <3>1. i \in 1 .. n /\ (j \in 1 .. n \/ j = n + 1)
      BY <1>1, <1>7, <2>2
    <3> QED
      BY <1>1, <1>6, <1>7, <1>10, <2>2, <3>1 DEF ChainInv, ChainIdsClimb, ChainIds
  <2>3. chainStack'[1].stamp = chainStack'[1].id
    <3>1. CASE n = 0
      BY <1>6, <1>7, <3>1
    <3>2. CASE n # 0
      <4>1. 1 \in 1 .. n /\ chainStack # <<>>
        BY <1>1, <3>2
      <4> QED
        BY <1>7, <4>1 DEF ChainInv, ChainIdsClimb
    <3> QED
      BY <3>1, <3>2
  <2> QED
    BY <1>1, <1>2, <1>7, <2>1, <2>2, <2>3 DEF ChainIdsClimb
<1>12. ChainRunsOn' /\ ChainHalts' /\ StepsNameTheirReports'
  BY <1>3 DEF ChainInv, ChainRunsOn, ChainHalts, StepsNameTheirReports
<1>13. SpansAreNested'
  <2>1. DOMAIN chainStack' = 1 .. (n + 1) /\ DOMAIN chainStack = 1 .. n
    BY <1>1, <1>2, <1>7
  <2>2. chainSpans = {chainStack[i].id : i \in 1 .. n}
    BY <2>1 DEF ChainInv, SpansAreNested
  <2>3. ASSUME NEW x PROVE x \in chainSpans' <=> \E i \in 1 .. (n + 1) : x = chainStack'[i].id
    <3>1. \A i \in 1 .. (n + 1) : i \in 1 .. n \/ i = n + 1
      BY <1>1
    <3>2. n + 1 \in 1 .. (n + 1) /\ \A i \in 1 .. n : i \in 1 .. (n + 1)
      BY <1>1
    <3> QED
      BY <1>6, <1>7, <1>8, <2>2, <3>1, <3>2
  <2> QED
    BY <2>1, <2>3 DEF SpansAreNested
<1> QED
  BY <1>9, <1>11, <1>12, <1>13 DEF ChainInv

\* An agent reports through what it was given.
LEMMA ChainReportKeepsInv ==
  ASSUME ChainInv, ChainReport
  PROVE  ChainInv'
<1>1. PICK n \in Nat : n = Len(chainStack)
  BY DEF ChainInv, ChainTypeOK
<1>2. /\ chainStack \in Seq(ChainFrames) /\ chainStack # <<>> /\ n \in 1 .. n
      /\ UNCHANGED <<chainStack, chainIssued, chainSpans, chainResults, chainEnd>>
      /\ n \in 1 .. ChainMaxStack
  BY <1>1, ChainAssumption, ChainFrameFields
  DEF ChainReport, ChainInv, ChainIdsClimb, ChainAssumption
<1>3. PICK f \in ChainFrames : f = chainStack[n] /\ f = Last(chainStack) /\ ChainStamp = f.stamp
  BY <1>1, <1>2, ChainFrameFields DEF ChainStamp
<1>4. /\ chainReports' = chainReports \cup {[by |-> f.id, carries |-> f.stamp, level |-> n]}
      /\ n = 1 => f.stamp = f.id
  BY <1>1, <1>2, <1>3 DEF ChainReport, ChainInv, ChainIdsClimb
<1>5. ChainTypeOK'
  BY <1>2, <1>3, <1>4 DEF ChainInv, ChainTypeOK, ChainFrames
<1>6. StepsNameTheirReports'
  BY <1>4 DEF ChainInv, StepsNameTheirReports
<1>7. ChainIdsClimb' /\ ChainRunsOn' /\ ChainHalts' /\ SpansAreNested'
  BY <1>2 DEF ChainInv, ChainIdsClimb, ChainRunsOn, ChainHalts, SpansAreNested
<1> QED
  BY <1>5, <1>6, <1>7 DEF ChainInv

\* An agent returns or throws.
LEMMA ChainReturnKeepsInv ==
  ASSUME ChainInv, NEW outcome \in {"succeeded", "failed", "threw"}, ChainReturn(outcome)
  PROVE  ChainInv'
<1> DEFINE Outcomes == {"succeeded", "failed", "threw"}
<1>1. PICK n \in Nat : n = Len(chainStack)
  BY DEF ChainInv, ChainTypeOK
<1>2. /\ chainStack \in Seq(ChainFrames) /\ chainStack # <<>> /\ n \in 1 .. n
      /\ UNCHANGED <<chainIssued, chainReports>> /\ chainEnd = "running"
  BY <1>1, ChainFrameFields DEF ChainReturn, ChainInv, ChainRunsOn
<1>3. /\ chainStack' \in Seq(ChainFrames) /\ Len(chainStack') = n - 1
      /\ \A i \in 1 .. (n - 1) : chainStack'[i] = chainStack[i]
  <2>1. chainStack' = SubSeq(chainStack, 1, n - 1)
    BY <1>1 DEF ChainReturn, Front
  <2>2. \A i \in 1 .. (n - 1) : chainStack[i] \in ChainFrames
    BY <1>1, ChainFrameFields
  <2>3. /\ SubSeq(chainStack, 1, n - 1) \in Seq(ChainFrames)
        /\ Len(SubSeq(chainStack, 1, n - 1)) = IF 1 <= n - 1 THEN (n - 1) - 1 + 1 ELSE 0
        /\ \A i \in 1 .. ((n - 1) - 1 + 1) :
             SubSeq(chainStack, 1, n - 1)[i] = chainStack[1 + i - 1]
    BY <1>1, <2>2, SubSeqProperties
  <2>4. \A i \in 1 .. (n - 1) : i \in 1 .. ((n - 1) - 1 + 1) /\ 1 + i - 1 = i
    BY <1>1
  <2> QED
    BY <1>1, <1>2, <2>1, <2>3, <2>4
<1>4. chainSpans' = chainSpans \ {chainStack[n].id}
  BY <1>1 DEF ChainReturn, ChainSpansAfter, Last
<1>5. PICK r \in Nat :
        /\ r = Len(chainResults) /\ r < ChainLength /\ ChainLength \in Nat
        /\ chainResults \in Seq(Outcomes)
        /\ \A i \in 1 .. r : chainResults[i] = "succeeded"
  BY <1>2, ChainAssumption DEF ChainInv, ChainTypeOK, ChainRunsOn, ChainAssumption
<1>6. /\ chainResults' \in Seq(Outcomes) /\ chainEnd' \in Outcomes \cup {"running"}
      /\ ChainRunsOn' /\ ChainHalts'
  <2>1. CASE n = 1
    <3>1. /\ chainResults' = Append(chainResults, outcome)
          /\ chainEnd' = IF outcome # "succeeded" THEN outcome
                         ELSE IF r + 1 = ChainLength THEN "succeeded" ELSE "running"
      BY <1>1, <1>5, <2>1 DEF ChainReturn, ChainGoesOn
    <3>2. /\ chainResults' \in Seq(Outcomes) /\ Len(chainResults') = r + 1
          /\ \A i \in 1 .. r : chainResults'[i] = "succeeded"
          /\ chainResults'[r + 1] = outcome /\ Last(chainResults') = outcome
      BY <1>5, <3>1 DEF Last
    <3>3. chainStack' = <<>>
      BY <1>3, <2>1
    <3>4. outcome = "succeeded" =>
            \A i \in 1 .. (r + 1) : chainResults'[i] = "succeeded"
      BY <1>5, <3>2
    <3>5. ChainRunsOn'
      BY <1>5, <3>1, <3>2, <3>3, <3>4 DEF ChainRunsOn
    <3>6. ChainHalts'
      <4>1. \A i \in 1 .. (Len(chainResults') - 1) : chainResults'[i] = "succeeded"
        BY <1>5, <3>2
      <4>2. (chainEnd' = "succeeded") <=>
              (Len(chainResults') = ChainLength /\ Last(chainResults') = "succeeded")
        BY <1>5, <3>1, <3>2
      <4> QED
        BY <4>1, <4>2 DEF ChainHalts
    <3> QED
      BY <3>1, <3>2, <3>5, <3>6
  <2>2. CASE n # 1
    <3>1. UNCHANGED <<chainResults, chainEnd>>
      BY <1>1, <2>2 DEF ChainReturn
    <3> QED
      BY <1>2, <1>5, <3>1 DEF ChainInv, ChainRunsOn, ChainHalts
  <2> QED
    BY <2>1, <2>2
<1>7. ChainTypeOK'
  BY <1>2, <1>3, <1>4, <1>6 DEF ChainInv, ChainTypeOK, ChainFrames
<1>8. /\ \A i \in 1 .. n : chainStack[i].id <= chainIssued /\ chainStack[i].id \in Nat
      /\ \A i, j \in 1 .. n : i < j => chainStack[i].id < chainStack[j].id
      /\ chainStack[1].stamp = chainStack[1].id /\ n <= ChainMaxStack
      /\ ChainMaxStack \in Nat
  BY <1>1, <1>2, ChainFrameFields, ChainAssumption
  DEF ChainInv, ChainIdsClimb, ChainAssumption
<1>9. ChainIdsClimb'
  <2>1. chainStack' # <<>> => 1 \in 1 .. (n - 1)
    BY <1>1, <1>3, EmptySeq
  <2>2. \A i \in 1 .. (n - 1) : i \in 1 .. n
    BY <1>1
  <2>3. n - 1 <= ChainMaxStack
    BY <1>1, <1>8
  <2> QED
    BY <1>2, <1>3, <1>8, <2>1, <2>2, <2>3 DEF ChainIdsClimb
<1>10. SpansAreNested'
  <2>1. DOMAIN chainStack' = 1 .. (n - 1) /\ DOMAIN chainStack = 1 .. n
    BY <1>1, <1>2, <1>3
  <2>2. chainSpans = {chainStack[i].id : i \in 1 .. n}
    BY <2>1 DEF ChainInv, SpansAreNested
  <2>3. \A i \in 1 .. (n - 1) : i \in 1 .. n /\ chainStack[i].id # chainStack[n].id
    BY <1>1, <1>2, <1>8
  <2>4. \A i \in 1 .. n : i \in 1 .. (n - 1) \/ i = n
    BY <1>1
  <2>5. ASSUME NEW x PROVE x \in chainSpans' <=> \E i \in 1 .. (n - 1) : x = chainStack'[i].id
    BY <1>3, <1>4, <2>2, <2>3, <2>4
  <2> QED
    BY <2>1, <2>5 DEF SpansAreNested
<1>11. StepsNameTheirReports'
  BY <1>2 DEF ChainInv, StepsNameTheirReports
<1> QED
  BY <1>6, <1>7, <1>9, <1>10, <1>11 DEF ChainInv

\* No step of the chain leads out of the invariant.
LEMMA ChainInvNext == ChainInv /\ [ChainNext]_chainVars => ChainInv'
<1>1. ASSUME ChainInv, ChainNext PROVE ChainInv'
  BY <1>1, ChainReportKeepsInv, ChainInvokeKeepsInv, ChainReturnKeepsInv DEF ChainNext
<1>2. ASSUME ChainInv, UNCHANGED chainVars PROVE ChainInv'
  BY <1>2 DEF chainVars, ChainInv, ChainTypeOK, ChainIdsClimb, ChainRunsOn, ChainHalts,
     SpansAreNested, StepsNameTheirReports
<1> QED
  BY <1>1, <1>2

\* A chain of any length stops at the first step that does not succeed, leaves no span
\* open behind an agent that threw, and its steps report under their own ids.
THEOREM ChainHaltsAndNests ==
  ChainSpec => [](ChainTypeOK /\ ChainHalts /\ SpansAreNested /\ StepsNameTheirReports)
<1>1. ChainInv => ChainTypeOK /\ ChainHalts /\ SpansAreNested /\ StepsNameTheirReports
  BY DEF ChainInv
<1> QED
  BY <1>1, ChainInvInit, ChainInvNext, PTL DEF ChainSpec

-------------------------------------------------------------------------------
(* The conversation with an LLM. *)

LlmMessageSet ==
  {LlmUser} \cup [role : {"assistant"}, calls : Seq(LlmCallSet)]
    \cup [role : {"tool"}, name : LlmNames, answers : LlmIds]

\* A run that executes tools has one to execute; one that is ready has none.
LlmInv ==
  /\ llmSetup \in [provider : LlmProviders \cup {"none"}, streams : BOOLEAN]
  /\ llmMessages \in Seq(LlmMessageSet)
  /\ llmAt \in {"new", "ready", "asked", "tools", "done", "failed"}
  /\ llmCalls \in Seq(LlmCallSet)
  /\ llmIssued \in LlmIds \cup {0}
  /\ llmIteration \in 0 .. LlmMaxIterations
  /\ llmSaved \in [messages : Seq(LlmMessageSet), iteration : 0 .. LlmMaxIterations]
  /\ llmAt = "tools" => llmCalls # <<>>

\* The histories are made of messages.
LEMMA LlmInvIsTyped == LlmInv => LlmTypeOK
<1>1. \A m \in LlmMessageSet : LlmIsMessage(m)
  BY DEF LlmMessageSet, LlmIsMessage
<1>2. ASSUME NEW s \in Seq(LlmMessageSet), NEW k \in DOMAIN s PROVE s[k] \in LlmMessageSet
  OBVIOUS
<1> QED
  BY <1>1, <1>2 DEF LlmInv, LlmTypeOK

\* Nothing was said.
LEMMA LlmInvInit == LlmInit => LlmInv
BY LlmAssumption DEF LlmInit, LlmInv, LlmAssumption

\* No step of a run leads out of the invariant.
LEMMA LlmInvNext == LlmInv /\ [LlmNext]_llmVars => LlmInv'
<1> SUFFICES ASSUME LlmInv, [LlmNext]_llmVars PROVE LlmInv'
  OBVIOUS
<1>0. LlmMaxIterations \in Nat /\ <<>> \in Seq(LlmCallSet)
  BY LlmAssumption DEF LlmAssumption
<1>1. CASE LlmBegin
  <2>1. <<LlmUser>> \in Seq(LlmMessageSet)
    BY DEF LlmMessageSet
  <2> QED
    BY <1>1, <2>1 DEF LlmBegin, LlmInv
<1>2. CASE LlmAsk
  BY <1>0, <1>2 DEF LlmAsk, LlmInv
<1>3. CASE LlmCallArrives
  <2>1. PICK n \in LlmNames : llmCalls' = Append(llmCalls, [id |-> llmIssued + 1, name |-> n])
    BY <1>3 DEF LlmCallArrives
  <2>2. llmIssued + 1 \in LlmIds /\ llmIssued' = llmIssued + 1
    BY <1>3 DEF LlmCallArrives
  <2>3. [id |-> llmIssued + 1, name |-> n] \in LlmCallSet
    BY <2>2 DEF LlmCallSet
  <2>4. llmCalls' \in Seq(LlmCallSet)
    BY <2>1, <2>3 DEF LlmInv
  <2> QED
    BY <1>3, <2>2, <2>4 DEF LlmCallArrives, LlmInv
<1>4. CASE LlmRespond
  <2>1. [role |-> "assistant", calls |-> llmCalls] \in LlmMessageSet
    BY DEF LlmInv, LlmMessageSet
  <2>2. Append(llmMessages, [role |-> "assistant", calls |-> llmCalls]) \in Seq(LlmMessageSet)
    BY <2>1 DEF LlmInv
  <2> QED
    BY <1>4, <2>2 DEF LlmRespond, LlmInv
<1>5. CASE LlmCut
  BY <1>0, <1>5 DEF LlmCut, LlmInv
<1>6. CASE LlmFail
  BY <1>0, <1>6 DEF LlmFail, LlmInv
<1>7. CASE LlmExecute
  <2>1. llmCalls \in Seq(LlmCallSet) /\ llmCalls # <<>> /\ llmMessages \in Seq(LlmMessageSet)
    BY <1>7 DEF LlmExecute, LlmInv
  <2>2. PICK c \in LlmCallSet : c = Head(llmCalls)
    BY <2>1, HeadTailProperties
  <2>3. Tail(llmCalls) \in Seq(LlmCallSet) /\ (Len(llmCalls) # 1 => Tail(llmCalls) # <<>>)
    <3>1. PICK n \in Nat : n = Len(llmCalls) /\ n # 0
      BY <2>1, LenProperties, EmptySeq
    <3>2. Tail(llmCalls) \in Seq(LlmCallSet) /\ Len(Tail(llmCalls)) = n - 1
      BY <2>1, <3>1, HeadTailProperties
    <3>3. Tail(llmCalls) = <<>> => n - 1 = 0
      BY <3>2, EmptySeq
    <3> QED
      BY <3>1, <3>2, <3>3
  <2>4. [role |-> "tool", name |-> c.name, answers |-> c.id] \in LlmMessageSet
    BY DEF LlmCallSet, LlmMessageSet
  <2>5. PICK ms \in Seq(LlmMessageSet) :
          ms = Append(llmMessages, [role |-> "tool", name |-> c.name, answers |-> c.id])
    BY <2>1, <2>4, AppendProperties
  <2>6. /\ llmMessages' = ms /\ llmCalls' = Tail(llmCalls)
        /\ llmSaved' = LlmSaves(ms, Tail(llmCalls))
        /\ llmAt' = IF Len(llmCalls) = 1 THEN "ready" ELSE "tools"
        /\ UNCHANGED <<llmSetup, llmIssued, llmIteration>>
    BY <1>7, <2>2, <2>5 DEF LlmExecute
  <2>7. llmSaved' \in [messages : Seq(LlmMessageSet), iteration : 0 .. LlmMaxIterations]
    BY <2>5, <2>6 DEF LlmSaves, LlmInv
  <2> QED
    BY <2>3, <2>5, <2>6, <2>7 DEF LlmInv
<1>8. CASE LlmRestart
  BY <1>0, <1>8 DEF LlmRestart, LlmInv
<1>9. CASE UNCHANGED llmVars
  BY <1>9 DEF llmVars, LlmInv
<1> QED
  BY <1>1, <1>2, <1>3, <1>4, <1>5, <1>6, <1>7, <1>8, <1>9 DEF LlmNext

\* f is what the adapter has after each of the first n messages.
LlmPrefix(f, provider, h, n) ==
  f = [k \in 0 .. n |-> IF k = 0 THEN LlmStart
                        ELSE LlmTranslateNext(provider, f[k - 1], h[k])]

\* There is such a function for every history, and LlmSofar is one: what the adapter has
\* after a message is made of what it had before it.
LEMMA LlmSofarGoesOn ==
  ASSUME NEW provider, NEW h, Len(h) \in Nat
  PROVE  \A k \in 0 .. Len(h) :
    LlmSofar(provider, h)[k] =
      IF k = 0 THEN LlmStart
      ELSE LlmTranslateNext(provider, LlmSofar(provider, h)[k - 1], h[k])
<1> DEFINE P(f, m) == LlmPrefix(f, provider, h, m)
<1>1. \E f : P(f, 0)
  <2>1. PICK f : f = [k \in 0 .. 0 |-> LlmStart]
    OBVIOUS
  <2> QED
    BY <2>1 DEF LlmPrefix
<1>2. ASSUME NEW m \in Nat, NEW f, P(f, m) PROVE \E g : P(g, m + 1)
  <2>1. PICK g : g = [k \in 0 .. m + 1 |->
                        IF k = m + 1 THEN LlmTranslateNext(provider, f[m], h[m + 1])
                        ELSE f[k]]
    OBVIOUS
  <2>2. ASSUME NEW k \in 0 .. m + 1
        PROVE  g[k] = IF k = 0 THEN LlmStart
                      ELSE LlmTranslateNext(provider, g[k - 1], h[k])
    <3>1. CASE k = m + 1
      BY <2>1, <3>1
    <3>2. CASE k # m + 1
      BY <1>2, <2>1, <3>2 DEF LlmPrefix
    <3> QED
      BY <3>1, <3>2
  <2> QED
    BY <2>1, <2>2 DEF LlmPrefix
<1> HIDE DEF P
<1>3. \A m \in Nat : \E f : P(f, m)
  <2> DEFINE Without == {m \in Nat : ~ \E f : P(f, m)}
  <2>1. ASSUME Without # {} PROVE FALSE
    <3>1. PICK m \in Without : \A k \in Without : m <= k
      <4>1. Without \subseteq Nat
        OBVIOUS
      <4> QED
        BY <2>1, <4>1, LeastNatural
    <3>2. m # 0
      BY <1>1
    <3>3. m - 1 \in Nat /\ m - 1 \notin Without
      BY <3>1, <3>2
    <3>4. PICK f : P(f, m - 1)
      BY <3>3
    <3>5. \E g : P(g, (m - 1) + 1)
      BY <1>2, <3>3, <3>4
    <3>6. (m - 1) + 1 = m
      OBVIOUS
    <3> QED
      BY <3>5, <3>6
  <2> QED
    BY <2>1
<1>4. \E f : f = [k \in 0 .. Len(h) |-> IF k = 0 THEN LlmStart
                                        ELSE LlmTranslateNext(provider, f[k - 1], h[k])]
  BY <1>3 DEF P, LlmPrefix
<1>5. LlmSofar(provider, h) =
        [k \in 0 .. Len(h) |->
           IF k = 0 THEN LlmStart
           ELSE LlmTranslateNext(provider, LlmSofar(provider, h)[k - 1], h[k])]
  BY <1>4 DEF LlmSofar
<1> QED
  BY <1>5

\* The message the run keeps of a result.
LlmResultOf(call) == [role |-> "tool", name |-> call.name, answers |-> call.id]

\* What requests are made of.
LlmSentResults == [id : LlmIds \cup LlmNames, answers : LlmIds]
LlmSentSet ==
  [role : {"user", "assistant", "tool", "function"}, calls : Seq(LlmCallSet),
   results : Seq(LlmSentResults)]

\* Where in a request the message is whose calls the results at its end answer.
LlmAsker(p, out, n) == Len(out) - IF p = "claude" THEN IF n = 0 THEN 0 ELSE 1 ELSE n

\* The calls of message at have their first n results, and nothing follows these.
LlmEndsAnswered(p, out, at, calls, n) ==
  /\ at \in 1 .. Len(out)
  /\ out[at].calls = calls /\ out[at].results = <<>>
  /\ \A q \in at + 1 .. Len(out) : out[q].calls = <<>>
  /\ IF p = "claude"
     THEN n > 0 => /\ Len(out[at + 1].results) = n
                   /\ \A i \in 1 .. n :
                        out[at + 1].results[i] = LlmAnswerTo(p, calls[i])
     ELSE \A i \in 1 .. n : out[at + i].results = <<LlmAnswerTo(p, calls[i])>>

\* The message after the answers to the calls of message q.
LlmNextAfter(p, out, q) == q + 1 + (IF p = "claude" THEN 1 ELSE Len(out[q].calls))

\* What was asked before message at is answered before it.
LlmBeforeAnswered(p, out, at) ==
  \A q \in 1 .. at - 1 : out[q].calls # <<>> =>
    LlmIsAnswered(p, out, q) /\ LlmNextAfter(p, out, q) <= at

\* With Claude the user speaks first, and the roles alternate.
LlmAlternates(p, out, at, calls) ==
  p = "claude" =>
    /\ \A q \in 1 .. Len(out) : out[q].role = IF q % 2 = 1 THEN "user" ELSE "assistant"
    /\ calls = <<>> => at = 1
    /\ calls # <<>> => at % 2 = 0

\* A request under way: the last message with calls has n of its results, the others
\* wait in the queue, in order, and everything before is answered.
LlmSent(p, so, calls, n) ==
  LET at == LlmAsker(p, so.out, n) IN
  /\ so.queue = SubSeq(calls, n + 1, Len(calls))
  /\ so.out \in Seq(LlmSentSet)
  /\ LlmEndsAnswered(p, so.out, at, calls, n)
  /\ LlmBeforeAnswered(p, so.out, at)
  /\ LlmAlternates(p, so.out, at, calls)

\* What is added to a request leaves answered what was.
LEMMA LlmStaysAnswered ==
  ASSUME NEW p, NEW out \in Seq(LlmSentSet), NEW grown \in Seq(LlmSentSet),
         NEW at \in 1 .. Len(out),
         Len(grown) >= Len(out), \A q \in 1 .. at : grown[q] = out[q],
         LlmBeforeAnswered(p, out, at)
  PROVE  LlmBeforeAnswered(p, grown, at)
<1>0. Len(out) \in Nat /\ Len(grown) \in Nat
  OBVIOUS
<1> SUFFICES ASSUME NEW q \in 1 .. at - 1, grown[q].calls # <<>>
             PROVE  LlmIsAnswered(p, grown, q) /\ LlmNextAfter(p, grown, q) <= at
  BY DEF LlmBeforeAnswered
<1>1. q \in 1 .. Len(out) /\ grown[q] = out[q] /\ out[q].calls \in Seq(LlmCallSet)
  <2>1. q \in 1 .. Len(out) /\ grown[q] = out[q]
    BY <1>0
  <2>2. out[q] \in LlmSentSet
    BY <2>1, ElementOfSeq
  <2> QED
    BY <2>1, <2>2 DEF LlmSentSet
<1>2. LlmIsAnswered(p, out, q) /\ LlmNextAfter(p, out, q) <= at
  BY <1>1 DEF LlmBeforeAnswered
<1>3. PICK n \in Nat : n = Len(out[q].calls)
  BY <1>1
<1>4. CASE p = "claude"
  BY <1>0, <1>1, <1>2, <1>4 DEF LlmIsAnswered, LlmNextAfter
<1>5. CASE p # "claude"
  <2>1. q + 1 + n <= at
    BY <1>2, <1>3, <1>5 DEF LlmNextAfter
  <2>0. at \in Nat /\ q \in Nat /\ q >= 1 /\ at <= Len(out)
    BY <1>0
  <2>2. \A i \in 1 .. n : q + i \in 1 .. at
    BY <2>0, <2>1
  <2>3. /\ \A i \in 1 .. n : out[q + i].results = <<LlmAnswerTo(p, out[q].calls[i])>>
        /\ q + 1 + n <= Len(out) => out[q + 1 + n].results = <<>>
    BY <1>2, <1>3, <1>5 DEF LlmIsAnswered
  <2>4. \A i \in 1 .. n : grown[q + i] = out[q + i]
    BY <2>2
  <2>5. q + 1 + n \in 1 .. at /\ q + 1 + n <= Len(out) /\ q + 1 + n <= Len(grown)
    BY <1>0, <2>0, <2>1
  <2>6. grown[q + 1 + n] = out[q + 1 + n]
    BY <2>5
  <2>7. PICK c : c = out[q].calls /\ c = grown[q].calls
    BY <1>1
  <2>8. /\ \A i \in 1 .. n : grown[q + i].results = <<LlmAnswerTo(p, c[i])>>
        /\ grown[q + 1 + n].results = <<>>
    BY <2>3, <2>4, <2>5, <2>6, <2>7
  <2>9. LlmNextAfter(p, grown, q) = q + 1 + n /\ Len(c) = n
    BY <1>3, <1>5, <2>7 DEF LlmNextAfter
  <2>10. LlmIsAnswered(p, grown, q)
    <3>1. /\ LlmIsAnswered(p, grown, q) <=>
               LET to == q + 1 + Len(grown[q].calls) IN
                 /\ to <= Len(grown) + 1
                 /\ \A i \in 1 .. Len(grown[q].calls) :
                      grown[q + i].results = <<LlmAnswerTo(p, grown[q].calls[i])>>
                 /\ to <= Len(grown) => grown[to].results = <<>>
      BY <1>5 DEF LlmIsAnswered
    <3>2. q + 1 + n <= Len(grown) + 1
      BY <1>0, <2>0, <2>5
    <3> QED
      BY <2>7, <2>8, <2>9, <3>1, <3>2
  <2> QED
    BY <2>1, <2>9, <2>10
<1> QED
  BY <1>4, <1>5

\* With Claude one message answers all the calls of another.
LEMMA LlmAnsweredByOne ==
  ASSUME NEW p, p = "claude", NEW out, NEW q \in Nat
  PROVE  LlmIsAnswered(p, out, q) <=>
           /\ q + 2 <= Len(out) + 1
           /\ out[q + 1].results =
                [i \in 1 .. Len(out[q].calls) |-> LlmAnswerTo(p, out[q].calls[i])]
           /\ q + 2 <= Len(out) => out[q + 2].results = <<>>
BY DEF LlmIsAnswered

\* With the other providers each call is answered by a message of its own.
LEMMA LlmAnsweredByEach ==
  ASSUME NEW p, p # "claude", NEW out, NEW q \in Nat
  PROVE  LlmIsAnswered(p, out, q) <=>
           LET grown == q + 1 + Len(out[q].calls) IN
             /\ grown <= Len(out) + 1
             /\ \A i \in 1 .. Len(out[q].calls) :
                  out[q + i].results = <<LlmAnswerTo(p, out[q].calls[i])>>
             /\ grown <= Len(out) => out[grown].results = <<>>
BY DEF LlmIsAnswered

\* A result takes the first call that waits, which is its own.
LEMMA LlmTakesTheFirst ==
  ASSUME NEW p, NEW calls \in Seq(LlmCallSet), NEW n \in Nat, n < Len(calls),
         NEW queue, queue = SubSeq(calls, n + 1, Len(calls))
  PROVE  /\ calls[n + 1] \in LlmCallSet
         /\ LlmAwaits(queue, calls[n + 1].name)
         /\ RemoveAt(queue, LlmTakes(queue, calls[n + 1].name)) =
              SubSeq(calls, n + 2, Len(calls))
         /\ LlmResolve(p, queue, calls[n + 1].name) = LlmAnswerTo(p, calls[n + 1]).id
<1>1. PICK len \in Nat : len = Len(calls)
  BY LenProperties
<1>2. n + 1 \in 1 .. len /\ len \in n + 1 .. len
  BY <1>1
<1>3. \A i \in n + 1 .. len : calls[i] \in LlmCallSet
  BY <1>1, ElementOfSeq
<1>4. /\ queue \in Seq(LlmCallSet) /\ Len(queue) = len - n
      /\ \A i \in 1 .. len - n : queue[i] = calls[n + i]
  <2>1. n + 1 \in Int /\ len \in Int
    BY <1>1
  <2>2. /\ queue \in Seq(LlmCallSet)
        /\ Len(queue) = IF n + 1 <= len THEN len - (n + 1) + 1 ELSE 0
        /\ \A i \in 1 .. len - (n + 1) + 1 : queue[i] = calls[(n + 1) + i - 1]
    BY <1>1, <1>3, <2>1, SubSeqProperties
  <2>3. /\ len - (n + 1) + 1 = len - n /\ n + 1 <= len
        /\ \A i \in 1 .. len - n : (n + 1) + i - 1 = n + i
    BY <1>1
  <2> QED
    BY <2>2, <2>3
<1>5. queue[1] = calls[n + 1] /\ 1 \in DOMAIN queue /\ queue # <<>>
  <2>1. 1 \in 1 .. len - n /\ len - n # 0
    BY <1>1
  <2>2. DOMAIN queue = 1 .. len - n /\ queue # <<>>
    BY <1>4, <2>1, LenProperties, EmptySeq
  <2> QED
    BY <1>4, <2>1, <2>2
<1>6. LlmAwaits(queue, calls[n + 1].name)
  BY <1>5 DEF LlmAwaits
<1>7. LlmTakes(queue, calls[n + 1].name) = 1
  <2> DEFINE First(i) == /\ queue[i].name = calls[n + 1].name
                         /\ \A j \in 1 .. i - 1 : queue[j].name # calls[n + 1].name
  <2>1. First(1)
    BY <1>5
  <2>2. \A i \in DOMAIN queue : First(i) => i = 1
    <3>1. DOMAIN queue = 1 .. len - n
      BY <1>4, LenProperties
    <3> QED
      BY <1>1, <1>5, <3>1
  <2> HIDE DEF First
  <2>3. (CHOOSE i \in DOMAIN queue : First(i)) = 1
    BY <1>5, <2>1, <2>2
  <2> QED
    BY <2>3 DEF LlmTakes, First
<1>8. RemoveAt(queue, 1) = SubSeq(calls, n + 2, Len(calls))
  <2>1. SubSeq(queue, 1, 0) = <<>>
    BY SubSeqEmpty
  <2>2. SubSeq(queue, 2, Len(queue)) = Tail(queue) /\ Tail(queue) \in Seq(LlmCallSet)
    BY <1>4, <1>5, TailIsSubSeq, HeadTailProperties
  <2>3. Tail(queue) = SubSeq(calls, (n + 1) + 1, len)
    BY <1>1, <1>2, HeadTailOfSubSeq
  <2>4. (n + 1) + 1 = n + 2 /\ 1 - 1 = 0 /\ 1 + 1 = 2
    OBVIOUS
  <2>5. <<>> \o Tail(queue) = Tail(queue)
    BY <2>2, ConcatEmptySeq
  <2> QED
    BY <1>1, <2>1, <2>2, <2>3, <2>4, <2>5 DEF RemoveAt
<1>9. LlmResolve(p, queue, calls[n + 1].name) = LlmAnswerTo(p, calls[n + 1]).id
  BY <1>5, <1>6, <1>7 DEF LlmResolve, LlmAnswerTo
<1> QED
  BY <1>1, <1>2, <1>3, <1>6, <1>7, <1>8, <1>9

\* A result is sent with the id of its own call, after those before it.
LEMMA LlmResultGoesOn ==
  ASSUME NEW p, NEW so, NEW calls \in Seq(LlmCallSet), NEW n \in Nat, n < Len(calls),
         LlmSent(p, so, calls, n)
  PROVE  LlmSent(p, LlmTranslateTool(p, so, LlmResultOf(calls[n + 1])), calls, n + 1)
<1> DEFINE call == calls[n + 1]
           answer == LlmAnswerTo(p, call)
           grown == LlmTranslateTool(p, so, LlmResultOf(call))
           at == LlmAsker(p, so.out, n)
<1>0. /\ so.queue = SubSeq(calls, n + 1, Len(calls)) /\ so.out \in Seq(LlmSentSet)
      /\ LlmEndsAnswered(p, so.out, at, calls, n)
      /\ LlmBeforeAnswered(p, so.out, at) /\ LlmAlternates(p, so.out, at, calls)
  BY DEF LlmSent
<1>1. PICK len \in Nat : len = Len(so.out)
  BY <1>0, LenProperties
<1>2. /\ call \in LlmCallSet /\ LlmAwaits(so.queue, call.name)
      /\ RemoveAt(so.queue, LlmTakes(so.queue, call.name)) =
           SubSeq(calls, n + 2, Len(calls))
      /\ LlmResolve(p, so.queue, call.name) = answer.id
  BY <1>0, LlmTakesTheFirst
<1>3. answer \in LlmSentResults /\ answer.answers = call.id
      /\ answer = [id |-> answer.id, answers |-> call.id]
  BY <1>2 DEF LlmAnswerTo, LlmSentResults, LlmCallSet
<1>4. /\ grown.queue = SubSeq(calls, n + 2, Len(calls))
      /\ grown.out = IF p = "claude" /\ LlmMerges(so.out)
                    THEN [so.out EXCEPT ![Len(so.out)] =
                            [@ EXCEPT !.results =
                               Append(so.out[Len(so.out)].results, answer)]]
                    ELSE LlmSay(so.out, LlmToolRole(p), <<>>, <<answer>>)
  <2>1. /\ LlmResultOf(call).name = call.name /\ LlmResultOf(call).answers = call.id
    BY DEF LlmResultOf
  <2> HIDE DEF call, answer
  <2> QED
    BY <1>2, <1>3, <2>1 DEF LlmTranslateTool
<1>5. (n + 1) + 1 = n + 2 /\ n + 1 > 0
  OBVIOUS
<1> HIDE DEF call, answer, grown
<1>6. at \in 1 .. len /\ at \in Nat
  BY <1>0, <1>1 DEF LlmEndsAnswered
<1> HIDE DEF at
<1>7. CASE ~(p = "claude" /\ LlmMerges(so.out))
  <2> DEFINE said == [role |-> LlmToolRole(p), calls |-> <<>>, results |-> <<answer>>]
  <2>1. said \in LlmSentSet
    BY <1>3 DEF LlmSentSet, LlmToolRole
  <2>2. grown.out = Append(so.out, said)
    BY <1>4, <1>7 DEF LlmSay
  <2> HIDE DEF said
  <2>3. /\ grown.out \in Seq(LlmSentSet) /\ Len(grown.out) = len + 1
        /\ \A q \in 1 .. len : grown.out[q] = so.out[q]
        /\ grown.out[len + 1] = said
    BY <1>0, <1>1, <2>1, <2>2, AppendProperties
  <2>4. p = "claude" => n = 0 /\ at = len /\ at % 2 = 0
    <3> SUFFICES ASSUME p = "claude" PROVE n = 0 /\ at = len /\ at % 2 = 0
      OBVIOUS
    <3>1. calls # <<>>
      BY EmptySeq
    <3>2. at % 2 = 0
      BY <1>0, <3>1 DEF LlmAlternates
    <3>3. n = 0
      <4>1. ASSUME n # 0 PROVE FALSE
        <5>1. len = at + 1
          BY <1>1, <1>6, <4>1 DEF LlmAsker, at
        <5>2. so.out[len].role = "user"
          <6>1. len % 2 = 1 /\ len \in 1 .. len
            BY <1>6, <3>2, <5>1
          <6> QED
            BY <1>0, <1>1, <6>1 DEF LlmAlternates
        <5>3. so.out[len].results # <<>>
          <6>1. Len(so.out[len].results) = n
            BY <1>0, <4>1, <5>1 DEF LlmEndsAnswered
          <6> QED
            BY <4>1, <6>1, EmptySeq
        <5> QED
          BY <1>1, <1>7, <5>2, <5>3 DEF LlmMerges, Last
      <4> QED
        BY <4>1
    <3>4. at = len
      BY <1>1, <3>3 DEF LlmAsker, at
    <3> QED
      BY <3>2, <3>3, <3>4
  <2>5. LlmAsker(p, grown.out, n + 1) = at
    <3>1. CASE p = "claude"
      BY <1>1, <1>5, <2>3, <2>4, <3>1 DEF LlmAsker
    <3>2. CASE p # "claude"
      <4>1. at = len - n
        BY <1>1, <3>2 DEF LlmAsker, at
      <4>2. LlmAsker(p, grown.out, n + 1) = (len + 1) - (n + 1)
        BY <2>3, <3>2 DEF LlmAsker
      <4> QED
        BY <1>1, <4>1, <4>2
    <3> QED
      BY <3>1, <3>2
  <2>6. LlmBeforeAnswered(p, grown.out, at)
    <3>1. /\ at \in 1 .. Len(so.out) /\ Len(grown.out) >= Len(so.out)
          /\ \A q \in 1 .. at : grown.out[q] = so.out[q]
      BY <1>1, <1>6, <2>3
    <3> QED
      BY <1>0, <2>3, <3>1, LlmStaysAnswered
  <2>7. LlmEndsAnswered(p, grown.out, at, calls, n + 1)
    <3>1. /\ grown.out[at] = so.out[at] /\ at \in 1 .. Len(grown.out)
          /\ \A q \in at + 1 .. Len(grown.out) : grown.out[q].calls = <<>>
      <4>1. ASSUME NEW q \in at + 1 .. Len(grown.out) PROVE grown.out[q].calls = <<>>
        <5>1. CASE q = len + 1
          BY <2>3, <5>1 DEF said
        <5>2. CASE q # len + 1
          <6>1. q \in 1 .. len /\ q \in at + 1 .. Len(so.out)
            BY <1>1, <1>6, <2>3, <5>2
          <6> QED
            BY <1>0, <2>3, <6>1 DEF LlmEndsAnswered
        <5> QED
          BY <5>1, <5>2
      <4> QED
        BY <1>1, <1>6, <2>3, <4>1
    <3>2. CASE p = "claude"
      <4>1. grown.out[at + 1].results = <<answer>>
        BY <2>3, <2>4, <3>2 DEF said
      <4>2. calls[n + 1] = calls[1] /\ n + 1 = 1
        BY <2>4, <3>2
      <4> QED
        BY <1>0, <3>1, <3>2, <4>1, <4>2 DEF LlmEndsAnswered, answer, call
    <3>3. CASE p # "claude"
      <4>1. ASSUME NEW i \in 1 .. n + 1
            PROVE  grown.out[at + i].results = <<LlmAnswerTo(p, calls[i])>>
        <5>0. len = at + n
          BY <1>1, <1>6, <3>3 DEF LlmAsker, at
        <5>1. CASE i = n + 1
          <6>1. at + i = len + 1
            BY <1>6, <5>0, <5>1
          <6> QED
            BY <2>3, <5>1, <6>1 DEF said, answer, call
        <5>2. CASE i # n + 1
          <6>1. i \in 1 .. n /\ at + i \in 1 .. len
            BY <1>6, <5>0, <5>2
          <6> QED
            BY <1>0, <2>3, <3>3, <6>1 DEF LlmEndsAnswered
        <5> QED
          BY <5>1, <5>2
      <4> QED
        BY <1>0, <3>1, <3>3, <4>1 DEF LlmEndsAnswered
    <3> QED
      BY <3>2, <3>3
  <2>8. LlmAlternates(p, grown.out, at, calls)
    <3> SUFFICES ASSUME p = "claude" PROVE LlmAlternates(p, grown.out, at, calls)
      BY DEF LlmAlternates
    <3>1. grown.out[len + 1].role = "user" /\ (len + 1) % 2 = 1
      <4>1. said.role = "user"
        BY DEF said, LlmToolRole
      <4>2. len % 2 = 0
        BY <2>4
      <4> QED
        BY <2>3, <4>1, <4>2
    <3>2. ASSUME NEW q \in 1 .. len + 1
          PROVE  grown.out[q].role = IF q % 2 = 1 THEN "user" ELSE "assistant"
      <4>1. CASE q = len + 1
        BY <3>1, <4>1
      <4>2. CASE q # len + 1
        <5>1. q \in 1 .. len
          BY <4>2
        <5> QED
          BY <1>0, <1>1, <2>3, <5>1 DEF LlmAlternates
      <4> QED
        BY <4>1, <4>2
    <3> QED
      BY <1>0, <2>3, <3>2 DEF LlmAlternates
  <2> QED
    BY <1>4, <1>5, <2>3, <2>5, <2>6, <2>7, <2>8 DEF LlmSent, grown, call
<1>8. CASE p = "claude" /\ LlmMerges(so.out)
  <2> DEFINE results == Append(so.out[len].results, answer)
             said == [so.out[len] EXCEPT !.results = results]
  <2>1. so.out[len].results # <<>> /\ so.out[len] \in LlmSentSet /\ len \in 1 .. len
    <3>1. len \in 1 .. len
      BY <1>6
    <3> QED
      BY <1>0, <1>1, <1>8, <3>1, ElementOfSeq DEF LlmMerges, Last
  <2>2. n > 0 /\ at + 1 = len
    <3>1. n # 0
      <4>1. ASSUME n = 0 PROVE FALSE
        <5>1. at = len
          BY <1>1, <4>1 DEF LlmAsker, at
        <5> QED
          BY <1>0, <2>1, <5>1 DEF LlmEndsAnswered
      <4> QED
        BY <4>1
    <3>2. at = len - 1
      BY <1>1, <1>8, <3>1 DEF LlmAsker, at
    <3> QED
      BY <3>1, <3>2
  <2>3. /\ so.out[len].results \in Seq(LlmSentResults) /\ Len(so.out[len].results) = n
        /\ so.out[len].calls = <<>>
        /\ \A i \in 1 .. n : so.out[len].results[i] = LlmAnswerTo(p, calls[i])
    <3>1. so.out[len].results \in Seq(LlmSentResults)
      BY <2>1 DEF LlmSentSet
    <3>2. len \in at + 1 .. Len(so.out)
      BY <1>1, <1>6, <2>2
    <3> QED
      BY <1>0, <1>8, <2>2, <3>1, <3>2 DEF LlmEndsAnswered
  <2>4. /\ results \in Seq(LlmSentResults) /\ Len(results) = n + 1
        /\ \A i \in 1 .. n : results[i] = so.out[len].results[i]
        /\ results[n + 1] = answer
    BY <1>3, <2>3, AppendProperties
  <2> HIDE DEF results
  <2>5. /\ said \in LlmSentSet /\ said.role = so.out[len].role
        /\ said.calls = <<>> /\ said.results = results
    BY <2>1, <2>3, <2>4 DEF LlmSentSet
  <2>6. grown.out = [so.out EXCEPT ![len] = said]
    BY <1>1, <1>4, <1>8 DEF results
  <2> HIDE DEF said
  <2>7. /\ grown.out \in Seq(LlmSentSet) /\ Len(grown.out) = len
        /\ \A q \in 1 .. len : grown.out[q] = IF q = len THEN said ELSE so.out[q]
    BY <1>0, <1>1, <2>1, <2>5, <2>6, ExceptSeq
  <2>8. LlmAsker(p, grown.out, n + 1) = at
    <3>1. LlmAsker(p, grown.out, n + 1) = len - 1
      BY <1>5, <1>8, <2>7 DEF LlmAsker
    <3> QED
      BY <1>6, <2>2, <3>1
  <2>9. LlmBeforeAnswered(p, grown.out, at)
    <3>1. /\ at \in 1 .. Len(so.out) /\ Len(grown.out) >= Len(so.out)
          /\ \A q \in 1 .. at : grown.out[q] = so.out[q]
      BY <1>1, <1>6, <2>2, <2>7
    <3> QED
      BY <1>0, <2>7, <3>1, LlmStaysAnswered
  <2>10. LlmEndsAnswered(p, grown.out, at, calls, n + 1)
    <3>1. grown.out[at] = so.out[at] /\ grown.out[at + 1] = said /\ at \in 1 .. Len(grown.out)
      BY <1>6, <2>2, <2>7
    <3>2. \A q \in at + 1 .. Len(grown.out) : grown.out[q] = said
      BY <1>6, <2>2, <2>7
    <3>3. \A i \in 1 .. n + 1 : results[i] = LlmAnswerTo(p, calls[i])
      <4>1. \A i \in 1 .. n + 1 : i = n + 1 \/ i \in 1 .. n
        OBVIOUS
      <4> QED
        BY <2>3, <2>4, <4>1 DEF answer, call
    <3> QED
      BY <1>0, <1>8, <2>4, <2>5, <3>1, <3>2, <3>3 DEF LlmEndsAnswered
  <2>11. LlmAlternates(p, grown.out, at, calls)
    <3>1. \A q \in 1 .. len : grown.out[q].role = so.out[q].role
      BY <2>5, <2>7
    <3> QED
      BY <1>0, <1>1, <2>7, <3>1 DEF LlmAlternates
  <2> QED
    BY <1>4, <1>5, <2>7, <2>8, <2>9, <2>10, <2>11 DEF LlmSent, grown, call
<1> QED
  BY <1>7, <1>8

\* Once the last call has its result, the calls of its message are answered.
LEMMA LlmLastAnswered ==
  ASSUME NEW p, NEW out \in Seq(LlmSentSet), NEW grown \in Seq(LlmSentSet),
         NEW calls \in Seq(LlmCallSet), calls # <<>>,
         LlmEndsAnswered(p, out, LlmAsker(p, out, Len(calls)), calls, Len(calls)),
         Len(grown) >= Len(out), \A q \in 1 .. Len(out) : grown[q] = out[q],
         Len(grown) > Len(out) => grown[Len(out) + 1].results = <<>>
  PROVE  LET at == LlmAsker(p, out, Len(calls)) IN
           LlmIsAnswered(p, grown, at) /\ LlmNextAfter(p, grown, at) = Len(out) + 1
<1> DEFINE at == LlmAsker(p, out, Len(calls))
<1>1. PICK len \in Nat : len = Len(out)
  BY LenProperties
<1>2. PICK n \in Nat : n = Len(calls) /\ n > 0
  BY LenProperties, EmptySeq
<1>3. PICK more \in Nat : more = Len(grown) /\ more >= len
  BY <1>1, LenProperties
<1>4. at \in 1 .. len /\ at \in Nat /\ LlmEndsAnswered(p, out, at, calls, n)
  BY <1>1, <1>2 DEF LlmEndsAnswered
<1>5. out[at].calls = calls /\ grown[at] = out[at]
  BY <1>1, <1>4 DEF LlmEndsAnswered
<1>6. CASE p = "claude"
  <2>1. len = at + 1
    BY <1>1, <1>2, <1>4, <1>6 DEF LlmAsker
  <2>2. grown[len] = out[len] /\ out[len] \in LlmSentSet
    BY <1>1, <1>4, <2>1, ElementOfSeq
  <2>3. /\ out[len].results \in Seq(LlmSentResults) /\ Len(out[len].results) = n
        /\ \A i \in 1 .. n : out[len].results[i] = LlmAnswerTo(p, calls[i])
    <3>1. out[len].results \in Seq(LlmSentResults)
      BY <2>2 DEF LlmSentSet
    <3>2. /\ Len(out[at + 1].results) = n
          /\ \A i \in 1 .. n : out[at + 1].results[i] = LlmAnswerTo(p, calls[i])
      BY <1>2, <1>4, <1>6 DEF LlmEndsAnswered
    <3>3. out[at + 1] = out[len]
      BY <2>1
    <3> HIDE DEF at
    <3> QED
      BY <3>1, <3>2, <3>3
  <2>4. out[len].results = [i \in 1 .. n |-> LlmAnswerTo(p, calls[i])]
    <3>1. out[len].results \in [1 .. n -> LlmSentResults]
      BY <2>3, LenProperties
    <3> QED
      BY <2>3, <3>1
  <2>5. at + 2 = len + 1 /\ at + 2 <= more + 1
    BY <1>3, <1>4, <2>1
  <2>6. at + 2 <= more => grown[at + 2].results = <<>>
    BY <1>1, <1>3, <2>5
  <2>7. grown[at + 1].results =
          [i \in 1 .. Len(grown[at].calls) |-> LlmAnswerTo(p, grown[at].calls[i])]
    BY <1>2, <1>5, <2>1, <2>2, <2>4
  <2>8. LlmIsAnswered(p, grown, at)
    <3> HIDE DEF at
    <3> QED
      BY <1>3, <1>4, <1>6, <2>5, <2>6, <2>7, LlmAnsweredByOne
  <2>9. LlmNextAfter(p, grown, at) = len + 1
    BY <1>4, <1>6, <2>5 DEF LlmNextAfter
  <2> QED
    BY <1>1, <2>8, <2>9
<1>7. CASE p # "claude"
  <2>1. len = at + n
    BY <1>1, <1>2, <1>4, <1>7 DEF LlmAsker
  <2>2. \A i \in 1 .. n : out[at + i].results = <<LlmAnswerTo(p, calls[i])>>
    BY <1>4, <1>7 DEF LlmEndsAnswered
  <2>3. \A i \in 1 .. n : grown[at + i] = out[at + i]
    <3>1. \A i \in 1 .. n : at + i \in 1 .. len
      BY <1>4, <2>1
    <3> QED
      BY <1>1, <3>1
  <2>4. at + 1 + n = len + 1 /\ at + 1 + n <= more + 1
    BY <1>3, <1>4, <2>1
  <2>5. at + 1 + n <= more => grown[at + 1 + n].results = <<>>
    BY <1>1, <1>3, <2>4
  <2>6. grown[at].calls = calls
    BY <1>5
  <2>7. LlmIsAnswered(p, grown, at)
    <3> HIDE DEF at
    <3>1. \A i \in 1 .. n : grown[at + i].results = <<LlmAnswerTo(p, grown[at].calls[i])>>
      BY <2>2, <2>3, <2>6
    <3>2. Len(grown[at].calls) = n /\ at + 1 + n <= Len(grown) + 1
      BY <1>2, <1>3, <2>4, <2>6
    <3>3. at + 1 + n <= Len(grown) => grown[at + 1 + n].results = <<>>
      BY <1>3, <2>5
    <3>4. LlmIsAnswered(p, grown, at) <=>
            LET to == at + 1 + Len(grown[at].calls) IN
              /\ to <= Len(grown) + 1
              /\ \A i \in 1 .. Len(grown[at].calls) :
                   grown[at + i].results = <<LlmAnswerTo(p, grown[at].calls[i])>>
              /\ to <= Len(grown) => grown[to].results = <<>>
      BY <1>4, <1>7, LlmAnsweredByEach
    <3> QED
      BY <3>1, <3>2, <3>3, <3>4
  <2>8. LlmNextAfter(p, grown, at) = len + 1
    BY <1>2, <1>4, <1>7, <2>4, <2>6 DEF LlmNextAfter
  <2> QED
    BY <1>1, <2>7, <2>8
<1> QED
  BY <1>6, <1>7

\* The calls of a new response follow the answers to the ones before.
LEMMA LlmCallsGoOn ==
  ASSUME NEW p, NEW so, NEW calls \in Seq(LlmCallSet), NEW more \in Seq(LlmCallSet),
         more # <<>>, LlmSent(p, so, calls, Len(calls))
  PROVE  LlmSent(p, [out |-> LlmSay(so.out, "assistant", more, <<>>),
                     queue |-> LlmEnqueue(so.queue, more)], more, 0)
<1> DEFINE n == Len(calls)
           at == LlmAsker(p, so.out, n)
           said == [role |-> "assistant", calls |-> more, results |-> <<>>]
           out == Append(so.out, said)
<1>0. /\ so.queue = SubSeq(calls, n + 1, n) /\ so.out \in Seq(LlmSentSet)
      /\ LlmEndsAnswered(p, so.out, at, calls, n)
      /\ LlmBeforeAnswered(p, so.out, at) /\ LlmAlternates(p, so.out, at, calls)
  BY DEF LlmSent
<1>1. PICK len \in Nat : len = Len(so.out)
  BY <1>0, LenProperties
<1>2. n \in Nat /\ (calls # <<>> => n > 0) /\ (calls = <<>> => n = 0)
  BY LenProperties, EmptySeq
<1>3. so.queue = <<>> /\ LlmEnqueue(so.queue, more) = SubSeq(more, 0 + 1, Len(more))
  <2>1. so.queue = <<>>
    BY <1>0, <1>2, SubSeqEmpty
  <2>2. <<>> \o more = more /\ SubSeq(more, 1, Len(more)) = more /\ 0 + 1 = 1
    BY ConcatEmptySeq, SubSeqFull
  <2> QED
    BY <2>1, <2>2 DEF LlmEnqueue
<1>4. said \in LlmSentSet
  BY EmptySeq DEF LlmSentSet
<1> HIDE DEF said
<1>5. /\ out \in Seq(LlmSentSet) /\ Len(out) = len + 1
      /\ \A q \in 1 .. len : out[q] = so.out[q]
      /\ out[len + 1] = said
  BY <1>0, <1>1, <1>4, AppendProperties
<1> HIDE DEF out
<1>6. at \in 1 .. len /\ at \in Nat
  BY <1>0, <1>1 DEF LlmEndsAnswered
<1>7. LlmAsker(p, out, 0) = len + 1
  BY <1>5 DEF LlmAsker
<1>8. LlmEndsAnswered(p, out, len + 1, more, 0)
  BY <1>5 DEF LlmEndsAnswered, said
<1>9. LlmBeforeAnswered(p, out, len + 1)
  <2>1. LlmBeforeAnswered(p, out, at)
    <3>1. /\ at \in 1 .. Len(so.out) /\ Len(out) >= Len(so.out)
          /\ \A q \in 1 .. at : out[q] = so.out[q]
      BY <1>1, <1>5, <1>6
    <3> HIDE DEF at
    <3> QED
      BY <1>0, <1>5, <3>1, LlmStaysAnswered
  <2>2. out[at].calls # <<>> =>
          LlmIsAnswered(p, out, at) /\ LlmNextAfter(p, out, at) = len + 1
    <3> SUFFICES ASSUME calls # <<>>
                 PROVE  LlmIsAnswered(p, out, at) /\ LlmNextAfter(p, out, at) = len + 1
      BY <1>0, <1>5, <1>6 DEF LlmEndsAnswered
    <3>1. /\ Len(out) >= Len(so.out) /\ \A q \in 1 .. Len(so.out) : out[q] = so.out[q]
          /\ out[Len(so.out) + 1].results = <<>>
      BY <1>1, <1>5 DEF said
    <3> QED
      BY <1>0, <1>1, <1>5, <3>1, LlmLastAnswered
  <2>3. ASSUME NEW q \in 1 .. len, out[q].calls # <<>>
        PROVE  LlmIsAnswered(p, out, q) /\ LlmNextAfter(p, out, q) <= len + 1
    <3>1. CASE q = at
      BY <2>2, <2>3, <3>1
    <3>2. CASE q < at
      <4>1. q \in 1 .. at - 1
        BY <1>6, <3>2
      <4>2. LlmIsAnswered(p, out, q) /\ LlmNextAfter(p, out, q) <= at
        BY <2>1, <2>3, <4>1 DEF LlmBeforeAnswered
      <4>3. LlmNextAfter(p, out, q) \in Int
        <5>1. out[q] \in LlmSentSet
          BY <1>5, ElementOfSeq
        <5>2. out[q].calls \in Seq(LlmCallSet)
          BY <5>1 DEF LlmSentSet
        <5>3. Len(out[q].calls) \in Nat
          BY <5>2, LenProperties
        <5> QED
          BY <5>3 DEF LlmNextAfter
      <4> QED
        BY <1>6, <4>2, <4>3
    <3>3. CASE q > at
      <4>0. q \in at + 1 .. len
        BY <1>6, <3>3
      <4>1. q \in at + 1 .. Len(so.out) /\ out[q] = so.out[q]
        BY <1>1, <1>5, <2>3, <4>0
      <4> QED
        BY <1>0, <2>3, <4>1 DEF LlmEndsAnswered
    <3> QED
      BY <1>6, <3>1, <3>2, <3>3
  <2> QED
    BY <2>3 DEF LlmBeforeAnswered
<1>10. LlmAlternates(p, out, len + 1, more)
  <2> SUFFICES ASSUME p = "claude" PROVE LlmAlternates(p, out, len + 1, more)
    BY DEF LlmAlternates
  <2>1. len % 2 = 1
    <3>1. CASE calls = <<>>
      <4>1. at = 1
        BY <1>0, <3>1 DEF LlmAlternates
      <4>2. at = len
        BY <1>1, <1>2, <3>1 DEF LlmAsker
      <4> QED
        BY <4>1, <4>2
    <3>2. CASE calls # <<>>
      <4>1. at % 2 = 0
        BY <1>0, <3>2 DEF LlmAlternates
      <4>2. at = len - 1
        BY <1>1, <1>2, <3>2 DEF LlmAsker
      <4> QED
        BY <1>6, <4>1, <4>2
    <3> QED
      BY <3>1, <3>2
  <2>2. (len + 1) % 2 = 0 /\ said.role = "assistant"
    BY <2>1 DEF said
  <2>3. ASSUME NEW q \in 1 .. len + 1
        PROVE  out[q].role = IF q % 2 = 1 THEN "user" ELSE "assistant"
    <3>1. CASE q = len + 1
      BY <1>5, <2>2, <3>1
    <3>2. CASE q # len + 1
      <4>1. q \in 1 .. len
        BY <3>2
      <4> QED
        BY <1>0, <1>1, <1>5, <4>1 DEF LlmAlternates
    <3> QED
      BY <3>1, <3>2
  <2> QED
    BY <1>5, <2>2, <2>3 DEF LlmAlternates
<1> QED
  BY <1>3, <1>5, <1>7, <1>8, <1>9, <1>10 DEF LlmSent, LlmSay, out, said

\* The calls of a message of the history.
LlmCallsOf(m) == IF m.role = "assistant" THEN m.calls ELSE <<>>

\* A history starts with the user; the results of a message with calls follow it in the
\* order of its calls, and after the last of them comes another message with calls.
LlmOrdered(h) ==
  /\ h # <<>> => h[1] = LlmUser
  /\ \A a \in 1 .. Len(h) : h[a].role # "tool" =>
       LET calls == LlmCallsOf(h[a]) IN
         /\ \A j \in 1 .. Len(calls) : a + j <= Len(h) => h[a + j] = LlmResultOf(calls[j])
         /\ a + Len(calls) < Len(h) =>
              h[a + Len(calls) + 1].role = "assistant" /\ h[a + Len(calls) + 1].calls # <<>>

\* Every call of the history has its result.
LlmComplete(h) ==
  \A a \in 1 .. Len(h) : h[a].role # "tool" => a + Len(LlmCallsOf(h[a])) <= Len(h)

\* A message has calls, if it is not a result.
LEMMA LlmMessageHasCalls ==
  ASSUME NEW m \in LlmMessageSet
  PROVE  LlmCallsOf(m) \in Seq(LlmCallSet)
BY EmptySeq DEF LlmMessageSet, LlmCallsOf, LlmUser

\* A request starts with the prompt of the user.
LEMMA LlmUserIsSent ==
  ASSUME NEW p
  PROVE  LlmSent(p, LlmTranslateNext(p, LlmStart, LlmUser), <<>>, 0)
<1> DEFINE said == [role |-> "user", calls |-> <<>>, results |-> <<>>]
           out == Append(<<>>, said)
<1>1. LlmTranslateNext(p, LlmStart, LlmUser) = [out |-> out, queue |-> <<>>]
  BY DEF LlmTranslateNext, LlmStart, LlmUser, LlmSay
<1>2. said \in LlmSentSet /\ Len(<<>>) = 0 /\ <<>> \in Seq(LlmSentSet)
  BY EmptySeq DEF LlmSentSet
<1> HIDE DEF said
<1>3. out \in Seq(LlmSentSet) /\ Len(out) = 1 /\ out[1] = said
  BY <1>2, AppendProperties
<1> HIDE DEF out
<1>4. LlmAsker(p, out, 0) = 1
  BY <1>3 DEF LlmAsker
<1>5. LlmEndsAnswered(p, out, 1, <<>>, 0)
  BY <1>3 DEF LlmEndsAnswered, said
<1>6. LlmBeforeAnswered(p, out, 1)
  BY DEF LlmBeforeAnswered
<1>7. LlmAlternates(p, out, 1, <<>>)
  BY <1>3 DEF LlmAlternates, said
<1>8. SubSeq(<<>>, 0 + 1, Len(<<>>)) = <<>>
  BY <1>2, SubSeqEmpty
<1> QED
  BY <1>1, <1>3, <1>4, <1>5, <1>6, <1>7, <1>8 DEF LlmSent

\* After each message the last one with calls is being answered.
LEMMA LlmSofarIsSent ==
  ASSUME NEW p, NEW h \in Seq(LlmMessageSet), LlmOrdered(h), h # <<>>
  PROVE  \A k \in 1 .. Len(h) : \E a \in 1 .. k :
           /\ h[a].role # "tool" /\ k - a <= Len(LlmCallsOf(h[a]))
           /\ LlmSent(p, LlmSofar(p, h)[k], LlmCallsOf(h[a]), k - a)
<1> DEFINE Good(k) == \E a \in 1 .. k :
             /\ h[a].role # "tool" /\ k - a <= Len(LlmCallsOf(h[a]))
             /\ LlmSent(p, LlmSofar(p, h)[k], LlmCallsOf(h[a]), k - a)
<1>1. PICK len \in Nat : len = Len(h) /\ len > 0
  BY LenProperties, EmptySeq
<1>2. /\ LlmSofar(p, h)[0] = LlmStart
      /\ \A k \in 1 .. len :
           LlmSofar(p, h)[k] = LlmTranslateNext(p, LlmSofar(p, h)[k - 1], h[k])
  BY <1>1, LlmSofarGoesOn
<1>3. Good(1)
  <2>1. h[1] = LlmUser /\ LlmCallsOf(h[1]) = <<>>
    BY DEF LlmOrdered, LlmCallsOf, LlmUser
  <2>2. LlmSofar(p, h)[1] = LlmTranslateNext(p, LlmStart, LlmUser)
    <3>1. 1 \in 1 .. len /\ 1 - 1 = 0
      BY <1>1
    <3> QED
      BY <1>2, <2>1, <3>1
  <2>3. LlmSent(p, LlmSofar(p, h)[1], LlmCallsOf(h[1]), 1 - 1)
    <3>1. 1 - 1 = 0
      OBVIOUS
    <3> QED
      BY <2>1, <2>2, <3>1, LlmUserIsSent
  <2>4. 1 - 1 <= Len(LlmCallsOf(h[1])) /\ h[1].role # "tool"
    BY <2>1, EmptySeq DEF LlmUser
  <2> QED
    BY <2>3, <2>4
<1>4. ASSUME NEW k \in 1 .. len, k < len, Good(k) PROVE Good(k + 1)
  <2>1. PICK a \in 1 .. k : /\ h[a].role # "tool" /\ k - a <= Len(LlmCallsOf(h[a]))
                            /\ LlmSent(p, LlmSofar(p, h)[k], LlmCallsOf(h[a]), k - a)
    BY <1>4
  <2> DEFINE so == LlmSofar(p, h)[k]
             calls == LlmCallsOf(h[a])
             n == k - a
  <2>2. a \in 1 .. Len(h) /\ h[a] \in LlmMessageSet /\ k + 1 \in 1 .. len
    <3>1. a \in 1 .. Len(h) /\ k + 1 \in 1 .. len
      BY <1>1, <1>4
    <3> QED
      BY <3>1, ElementOfSeq
  <2>3. calls \in Seq(LlmCallSet)
    BY <2>2, LlmMessageHasCalls
  <2>4. LlmSofar(p, h)[k + 1] = LlmTranslateNext(p, so, h[k + 1])
    <3>1. (k + 1) - 1 = k
      OBVIOUS
    <3> QED
      BY <1>2, <2>2, <3>1
  <2>5. /\ \A j \in 1 .. Len(calls) : a + j <= Len(h) => h[a + j] = LlmResultOf(calls[j])
        /\ a + Len(calls) < Len(h) => /\ h[a + Len(calls) + 1].role = "assistant"
                                      /\ h[a + Len(calls) + 1].calls # <<>>
    BY <2>1, <2>2 DEF LlmOrdered
  <2>6. PICK count \in Nat : count = Len(calls)
    BY <2>3, LenProperties
  <2>7. n \in Nat /\ n <= count /\ LlmSent(p, so, calls, n)
    BY <2>1, <2>6
  <2> HIDE DEF calls, so
  <2>8. CASE n < count
    <3>1. /\ n + 1 \in 1 .. count /\ a + (n + 1) = k + 1
          /\ k + 1 <= Len(h) /\ (k + 1) - a = n + 1
      BY <1>1, <1>4, <2>7, <2>8
    <3>2. h[k + 1] = LlmResultOf(calls[n + 1])
      <4>1. a + (n + 1) <= Len(h) => h[a + (n + 1)] = LlmResultOf(calls[n + 1])
        BY <2>5, <2>6, <3>1
      <4> QED
        BY <3>1, <4>1
    <3>3. LlmTranslateNext(p, so, h[k + 1]) =
            LlmTranslateTool(p, so, LlmResultOf(calls[n + 1]))
      BY <3>2 DEF LlmTranslateNext, LlmResultOf
    <3>4. LlmSent(p, LlmSofar(p, h)[k + 1], calls, n + 1)
      <4> HIDE DEF n
      <4> QED
        BY <2>3, <2>4, <2>6, <2>7, <2>8, <3>3, LlmResultGoesOn
    <3>5. LlmSent(p, LlmSofar(p, h)[k + 1], calls, (k + 1) - a)
      BY <3>1, <3>4
    <3>6. (k + 1) - a <= Len(calls) /\ a \in 1 .. k + 1
      BY <2>6, <3>1
    <3> QED
      BY <2>1, <3>5, <3>6 DEF calls
  <2>9. CASE n = count
    <3>1. a + Len(calls) = k /\ a + Len(calls) < Len(h) /\ k + 1 \in 1 .. Len(h)
      BY <1>1, <1>4, <2>6, <2>9
    <3>2. h[k + 1].role = "assistant" /\ h[k + 1].calls # <<>>
      BY <2>5, <3>1
    <3>3. LlmCallsOf(h[k + 1]) = h[k + 1].calls /\ h[k + 1].calls \in Seq(LlmCallSet)
      <4>1. h[k + 1] \in LlmMessageSet
        BY <3>1, ElementOfSeq
      <4>2. LlmCallsOf(h[k + 1]) = h[k + 1].calls
        BY <3>2 DEF LlmCallsOf
      <4> QED
        BY <4>1, <4>2, LlmMessageHasCalls
    <3>4. LlmTranslateNext(p, so, h[k + 1]) =
            [out |-> LlmSay(so.out, "assistant", h[k + 1].calls, <<>>),
             queue |-> LlmEnqueue(so.queue, h[k + 1].calls)]
      BY <3>2 DEF LlmTranslateNext
    <3>5. LlmSent(p, so, calls, Len(calls))
      BY <2>6, <2>7, <2>9
    <3>6. LlmSent(p, LlmSofar(p, h)[k + 1], h[k + 1].calls, 0)
      BY <2>3, <2>4, <3>2, <3>3, <3>4, <3>5, LlmCallsGoOn
    <3>7. (k + 1) - (k + 1) = 0 /\ k + 1 \in 1 .. k + 1
      OBVIOUS
    <3>8. LlmSent(p, LlmSofar(p, h)[k + 1], LlmCallsOf(h[k + 1]), (k + 1) - (k + 1))
      BY <3>3, <3>6, <3>7
    <3>9. (k + 1) - (k + 1) <= Len(LlmCallsOf(h[k + 1])) /\ h[k + 1].role # "tool"
      BY <3>2, <3>3, <3>7, LenProperties
    <3>10. ASSUME NEW m, m = k + 1 PROVE Good(m)
      <4> USE DEF Good
      <4>1. m \in 1 .. m
        BY <3>10
      <4>2. /\ h[m].role # "tool" /\ m - m <= Len(LlmCallsOf(h[m]))
            /\ LlmSent(p, LlmSofar(p, h)[m], LlmCallsOf(h[m]), m - m)
        BY <3>8, <3>9, <3>10
      <4> QED
        BY <4>1, <4>2
    <3> QED
      BY <3>10
  <2>10. n < count \/ n = count
    BY <2>6, <2>7
  <2> HIDE DEF n
  <2> QED
    BY <2>8, <2>9, <2>10
<1> HIDE DEF Good
<1>5. \A k \in 1 .. len : Good(k)
  <2> DEFINE Bad == {k \in 1 .. len : ~Good(k)}
  <2>1. ASSUME Bad # {} PROVE FALSE
    <3>1. PICK k \in Bad : \A j \in Bad : k <= j
      <4>1. Bad \subseteq Nat
        OBVIOUS
      <4> QED
        BY <2>1, <4>1, LeastNatural
    <3>2. k # 1 /\ k \in 1 .. len
      BY <1>3
    <3>3. k - 1 \in 1 .. len /\ k - 1 < len /\ k - 1 \notin Bad
      BY <3>1, <3>2
    <3>4. Good(k - 1)
      BY <3>3
    <3>5. Good((k - 1) + 1)
      BY <1>4, <3>3, <3>4
    <3>6. (k - 1) + 1 = k
      BY <3>2
    <3> QED
      BY <3>5, <3>6
  <2> QED
    BY <2>1
<1> QED
  BY <1>1, <1>5 DEF Good

\* In the request made of a history that is complete every call is answered, and with
\* Claude the roles alternate.
LEMMA LlmCompleteIsAnswered ==
  ASSUME NEW p, NEW h \in Seq(LlmMessageSet), LlmOrdered(h), LlmComplete(h), h # <<>>
  PROVE  LET request == LlmTranslate(p, h) IN
           \A q \in DOMAIN request :
             /\ request[q].calls # <<>> => LlmIsAnswered(p, request, q)
             /\ p = "claude" =>
                  request[q].role = IF q % 2 = 1 THEN "user" ELSE "assistant"
<1>1. PICK len \in Nat : len = Len(h) /\ len > 0
  BY LenProperties, EmptySeq
<1>2. PICK a \in 1 .. len :
             /\ h[a].role # "tool" /\ len - a <= Len(LlmCallsOf(h[a]))
             /\ LlmSent(p, LlmSofar(p, h)[len], LlmCallsOf(h[a]), len - a)
  <2>1. len \in 1 .. len
    BY <1>1
  <2> QED
    BY <1>1, <2>1, LlmSofarIsSent
<1> DEFINE so == LlmSofar(p, h)[len]
           calls == LlmCallsOf(h[a])
<1>3. calls \in Seq(LlmCallSet)
  <2>1. h[a] \in LlmMessageSet
    BY <1>1, ElementOfSeq
  <2> QED
    BY <2>1, LlmMessageHasCalls
<1>4. PICK n \in Nat : n = Len(calls)
  BY <1>3, LenProperties
<1>5. len - a = n
  <2>1. a + Len(calls) <= Len(h)
    BY <1>1, <1>2 DEF LlmComplete
  <2> QED
    BY <1>1, <1>2, <1>4, <2>1
<1> DEFINE request == so.out
           at == LlmAsker(p, request, n)
<1>6. LlmTranslate(p, h) = request
  BY <1>1 DEF LlmTranslate
<1>7. LlmSent(p, so, calls, n)
  BY <1>2, <1>5
<1> HIDE DEF so, calls
<1>8. /\ request \in Seq(LlmSentSet) /\ LlmEndsAnswered(p, request, at, calls, n)
      /\ LlmBeforeAnswered(p, request, at) /\ LlmAlternates(p, request, at, calls)
  BY <1>7 DEF LlmSent
<1>9. PICK last \in Nat : last = Len(request) /\ DOMAIN request = 1 .. last
  BY <1>8, LenProperties
<1> HIDE DEF request
<1>10. ASSUME NEW q \in 1 .. last, request[q].calls # <<>>
       PROVE  LlmIsAnswered(p, request, q)
  <2>1. at \in 1 .. last
    BY <1>8, <1>9 DEF LlmEndsAnswered
  <2>2. CASE q = at
    <3>1. calls # <<>>
      BY <1>8, <1>10, <2>2 DEF LlmEndsAnswered
    <3>2. LlmEndsAnswered(p, request, LlmAsker(p, request, Len(calls)), calls, Len(calls))
      BY <1>4, <1>8
    <3>3. LlmIsAnswered(p, request, LlmAsker(p, request, Len(calls)))
      BY <1>3, <1>8, <1>9, <3>1, <3>2, LlmLastAnswered
    <3> QED
      BY <1>4, <2>2, <3>3
  <2>3. CASE q < at
    <3>1. q \in 1 .. at - 1
      BY <2>1, <2>3
    <3> QED
      BY <1>8, <1>10, <3>1 DEF LlmBeforeAnswered
  <2>4. CASE q > at
    <3>1. q \in at + 1 .. Len(request)
      BY <1>9, <2>1, <2>4
    <3> QED
      BY <1>8, <1>10, <3>1 DEF LlmEndsAnswered
  <2> QED
    BY <2>1, <2>2, <2>3, <2>4
<1>11. ASSUME NEW q \in 1 .. last, p = "claude"
       PROVE  request[q].role = IF q % 2 = 1 THEN "user" ELSE "assistant"
  BY <1>8, <1>9, <1>11 DEF LlmAlternates
<1> QED
  BY <1>6, <1>9, <1>10, <1>11

\* The results still to come are those of the calls of message a.
LlmAnswering(h, a, left) ==
  LET calls == LlmCallsOf(h[a])
      done == Len(h) - a IN
    /\ h[a].role = "assistant" /\ done < Len(calls)
    /\ left = SubSeq(calls, done + 1, Len(calls))
    /\ \A b \in 1 .. a - 1 : h[b].role # "tool" => b + Len(LlmCallsOf(h[b])) < a

\* The history is in order, and complete but while the tools of a response are executed:
\* then the calls left are those of its last response.  What is saved is complete.
LlmHistoryInv ==
  /\ LlmOrdered(llmMessages)
  /\ llmAt # "new" => llmMessages # <<>>
  /\ llmAt = "tools" =>
       \E a \in 1 .. Len(llmMessages) : LlmAnswering(llmMessages, a, llmCalls)
  /\ llmAt # "tools" => LlmComplete(llmMessages)
  /\ LlmOrdered(llmSaved.messages) /\ LlmComplete(llmSaved.messages)

\* A response with calls follows a complete history, and its calls are to be answered.
LEMMA LlmCallsAreAsked ==
  ASSUME NEW h \in Seq(LlmMessageSet), NEW calls \in Seq(LlmCallSet), calls # <<>>,
         LlmOrdered(h), LlmComplete(h), h # <<>>
  PROVE  LET grown == Append(h, [role |-> "assistant", calls |-> calls]) IN
           LlmOrdered(grown) /\ \E a \in 1 .. Len(grown) : LlmAnswering(grown, a, calls)
<1> DEFINE said == [role |-> "assistant", calls |-> calls]
           grown == Append(h, said)
<1>1. PICK len \in Nat : len = Len(h) /\ len > 0
  BY LenProperties, EmptySeq
<1>2. said \in LlmMessageSet
  BY DEF LlmMessageSet
<1>3. said.role = "assistant" /\ said.calls = calls /\ LlmCallsOf(said) = calls
  BY DEF LlmCallsOf
<1> HIDE DEF said
<1>4. /\ grown \in Seq(LlmMessageSet) /\ Len(grown) = len + 1
      /\ \A q \in 1 .. len : grown[q] = h[q]
      /\ grown[len + 1] = said
  BY <1>1, <1>2, AppendProperties
<1> HIDE DEF grown
<1>5. PICK count \in Nat : count = Len(calls) /\ count > 0
  BY LenProperties, EmptySeq
<1>6. ASSUME NEW b \in 1 .. len, h[b].role # "tool"
      PROVE  /\ Len(LlmCallsOf(h[b])) \in Nat
             /\ b + Len(LlmCallsOf(h[b])) <= len
  <2>1. h[b] \in LlmMessageSet
    BY <1>1, ElementOfSeq
  <2>2. LlmCallsOf(h[b]) \in Seq(LlmCallSet)
    BY <2>1, LlmMessageHasCalls
  <2> QED
    BY <1>1, <1>6, <2>2, LenProperties DEF LlmComplete
<1>7. grown # <<>> /\ grown[1] = LlmUser
  <2>1. 1 \in 1 .. len /\ h[1] = LlmUser
    BY <1>1 DEF LlmOrdered
  <2> QED
    BY <1>4, <2>1, EmptySeq
<1>8. ASSUME NEW b \in 1 .. len + 1, grown[b].role # "tool"
      PROVE  LET cs == LlmCallsOf(grown[b]) IN
        /\ \A j \in 1 .. Len(cs) : b + j <= len + 1 => grown[b + j] = LlmResultOf(cs[j])
        /\ b + Len(cs) < len + 1 => /\ grown[b + Len(cs) + 1].role = "assistant"
                                    /\ grown[b + Len(cs) + 1].calls # <<>>
  <2>1. CASE b = len + 1
    <3>1. LlmCallsOf(grown[b]) = calls
      BY <1>3, <1>4, <2>1
    <3>2. \A j \in 1 .. count : ~(b + j <= len + 1)
      BY <2>1
    <3>3. ~(b + count < len + 1)
      BY <2>1
    <3> QED
      BY <1>5, <3>1, <3>2, <3>3
  <2>2. CASE b # len + 1
    <3> DEFINE cs == LlmCallsOf(grown[b])
    <3>1. b \in 1 .. len /\ grown[b] = h[b] /\ cs = LlmCallsOf(h[b]) /\ h[b].role # "tool"
      BY <1>4, <1>8, <2>2
    <3> HIDE DEF cs
    <3>2. PICK m \in Nat : m = Len(cs) /\ b + m <= len
      BY <1>6, <3>1
    <3>3. /\ \A j \in 1 .. m : b + j <= len => h[b + j] = LlmResultOf(cs[j])
          /\ b + m < len => h[b + m + 1].role = "assistant" /\ h[b + m + 1].calls # <<>>
      BY <1>1, <3>1, <3>2 DEF LlmOrdered
    <3>4. ASSUME NEW j \in 1 .. m PROVE grown[b + j] = LlmResultOf(cs[j])
      <4>1. b + j \in 1 .. len
        BY <3>1, <3>2
      <4> QED
        BY <1>4, <3>3, <4>1
    <3>5. grown[b + m + 1].role = "assistant" /\ grown[b + m + 1].calls # <<>>
      <4>1. CASE b + m = len
        BY <1>3, <1>4, <4>1
      <4>2. CASE b + m < len
        <5>1. b + m + 1 \in 1 .. len
          BY <3>1, <3>2, <4>2
        <5> QED
          BY <1>4, <3>3, <4>2, <5>1
      <4> QED
        BY <3>1, <3>2, <4>1, <4>2
    <3> QED
      BY <3>2, <3>4, <3>5 DEF cs
  <2> QED
    BY <2>1, <2>2
<1>9. LlmOrdered(grown)
  BY <1>4, <1>7, <1>8 DEF LlmOrdered
<1>10. LlmAnswering(grown, len + 1, calls)
  <2>1. LlmCallsOf(grown[len + 1]) = calls /\ grown[len + 1].role = "assistant"
    BY <1>3, <1>4
  <2>2. Len(grown) - (len + 1) = 0 /\ 0 < count /\ (len + 1) - 1 = len
    BY <1>4, <1>5
  <2>3. calls = SubSeq(calls, 0 + 1, Len(calls))
    <3>1. 0 + 1 = 1
      OBVIOUS
    <3> QED
      BY <3>1, SubSeqFull
  <2>4. ASSUME NEW b \in 1 .. len, grown[b].role # "tool"
        PROVE  b + Len(LlmCallsOf(grown[b])) < len + 1
    BY <1>4, <1>6, <2>4
  <2> QED
    BY <1>5, <2>1, <2>2, <2>3, <2>4 DEF LlmAnswering
<1> QED
  BY <1>4, <1>9, <1>10 DEF grown, said

\* The result of the next call keeps the history in order, and completes it if it was
\* the last one.
LEMMA LlmResultIsNext ==
  ASSUME NEW h \in Seq(LlmMessageSet), NEW a \in 1 .. Len(h), NEW left \in Seq(LlmCallSet),
         LlmOrdered(h), LlmAnswering(h, a, left)
  PROVE  LET grown == Append(h, LlmResultOf(Head(left))) IN
           /\ left # <<>> /\ LlmOrdered(grown)
           /\ Len(left) # 1 => LlmAnswering(grown, a, Tail(left)) /\ Tail(left) # <<>>
           /\ Len(left) = 1 => LlmComplete(grown)
<1> DEFINE calls == LlmCallsOf(h[a])
           done == Len(h) - a
           said == LlmResultOf(Head(left))
           grown == Append(h, said)
<1>1. PICK len \in Nat : len = Len(h) /\ a <= len /\ a >= 1
  BY LenProperties
<1>2. /\ h[a].role = "assistant" /\ done < Len(calls)
      /\ left = SubSeq(calls, done + 1, Len(calls))
      /\ \A b \in 1 .. a - 1 : h[b].role # "tool" => b + Len(LlmCallsOf(h[b])) < a
  BY DEF LlmAnswering
<1>3. ASSUME NEW b \in 1 .. len
      PROVE  LlmCallsOf(h[b]) \in Seq(LlmCallSet) /\ Len(LlmCallsOf(h[b])) \in Nat
  <2>1. h[b] \in LlmMessageSet
    BY <1>1, ElementOfSeq
  <2> QED
    BY <2>1, LlmMessageHasCalls, LenProperties
<1>4. PICK count \in Nat : count = Len(calls)
  BY <1>1, <1>3
<1>5. calls \in Seq(LlmCallSet)
  BY <1>1, <1>3
<1>6. done \in Nat /\ done = len - a /\ done < count
  BY <1>1, <1>2, <1>4
<1> HIDE DEF done, calls
<1>7. /\ left # <<>> /\ Head(left) = calls[done + 1] /\ Len(left) = count - done
      /\ Tail(left) = SubSeq(calls, done + 2, count)
  <2>1. done + 1 \in 1 .. count /\ count \in done + 1 .. count
    BY <1>4, <1>6
  <2>2. /\ Head(SubSeq(calls, done + 1, count)) = calls[done + 1]
        /\ Tail(SubSeq(calls, done + 1, count)) = SubSeq(calls, (done + 1) + 1, count)
    BY <1>4, <1>5, <2>1, HeadTailOfSubSeq
  <2>3. /\ (done + 1) + 1 = done + 2 /\ done + 1 <= count
        /\ count - (done + 1) + 1 = count - done
    BY <1>4, <1>6
  <2>4. \A i \in done + 1 .. count : calls[i] \in LlmCallSet
    <3>1. \A i \in done + 1 .. count : i \in 1 .. Len(calls)
      BY <1>4, <1>6
    <3> QED
      BY <1>5, <3>1, ElementOfSeq
  <2>5. Len(SubSeq(calls, done + 1, count)) = count - (done + 1) + 1
    <3>1. done + 1 \in Int /\ count \in Int
      BY <1>4, <1>6
    <3> QED
      BY <2>3, <2>4, <3>1, SubSeqProperties
  <2>6. Len(left) = count - done /\ left # <<>>
    <3>1. Len(left) = count - done /\ count - done # 0
      BY <1>2, <1>4, <1>6, <2>3, <2>5
    <3> QED
      BY <3>1, EmptySeq
  <2> QED
    BY <1>2, <1>4, <2>2, <2>3, <2>6
<1>8. said = LlmResultOf(calls[done + 1]) /\ said.role = "tool" /\ said \in LlmMessageSet
  <2>1. calls[done + 1] \in LlmCallSet
    <3>1. done + 1 \in 1 .. Len(calls)
      BY <1>4, <1>6
    <3> QED
      BY <1>5, <3>1, ElementOfSeq
  <2> QED
    BY <1>7, <2>1 DEF LlmResultOf, LlmMessageSet, LlmCallSet
<1> HIDE DEF said
<1>9. /\ grown \in Seq(LlmMessageSet) /\ Len(grown) = len + 1
      /\ \A q \in 1 .. len : grown[q] = h[q]
      /\ grown[len + 1] = said
  BY <1>1, <1>8, AppendProperties
<1> HIDE DEF grown
<1>10. /\ \A j \in 1 .. count : a + j <= len => h[a + j] = LlmResultOf(calls[j])
  BY <1>1, <1>2, <1>4 DEF LlmOrdered, calls
<1>11. ASSUME NEW b \in 1 .. len, h[b].role # "tool" PROVE b < a \/ b = a
  <2>1. ASSUME b > a PROVE FALSE
    <3>1. b - a \in 1 .. count /\ a + (b - a) = b /\ b <= len
      BY <1>1, <1>4, <1>6, <2>1
    <3>2. h[b] = LlmResultOf(calls[b - a])
      BY <1>10, <3>1
    <3> QED
      BY <1>11, <3>2 DEF LlmResultOf
  <2> QED
    BY <1>1, <2>1
<1>12. grown # <<>> /\ grown[1] = LlmUser
  <2>1. 1 \in 1 .. len /\ h[1] = LlmUser
    <3>1. h # <<>>
      BY <1>1, EmptySeq
    <3> QED
      BY <1>1, <3>1 DEF LlmOrdered
  <2> QED
    BY <1>9, <2>1, EmptySeq
<1>13. ASSUME NEW b \in 1 .. len + 1, grown[b].role # "tool"
       PROVE  b \in 1 .. len /\ grown[b] = h[b] /\ h[b].role # "tool" /\ (b < a \/ b = a)
  <2>1. b # len + 1
    BY <1>8, <1>9, <1>13
  <2>2. b \in 1 .. len
    BY <2>1
  <2> QED
    BY <1>9, <1>11, <1>13, <2>2
<1>14. ASSUME NEW b \in 1 .. len + 1, grown[b].role # "tool"
       PROVE  LET cs == LlmCallsOf(grown[b]) IN
         /\ \A j \in 1 .. Len(cs) : b + j <= len + 1 => grown[b + j] = LlmResultOf(cs[j])
         /\ b + Len(cs) < len + 1 => /\ grown[b + Len(cs) + 1].role = "assistant"
                                     /\ grown[b + Len(cs) + 1].calls # <<>>
  <2> DEFINE cs == LlmCallsOf(grown[b])
  <2>1. b \in 1 .. len /\ grown[b] = h[b] /\ cs = LlmCallsOf(h[b]) /\ h[b].role # "tool"
    BY <1>13, <1>14
  <2> HIDE DEF cs
  <2>2. PICK m \in Nat : m = Len(cs)
    BY <1>3, <2>1
  <2>3. /\ \A j \in 1 .. m : b + j <= len => h[b + j] = LlmResultOf(cs[j])
        /\ b + m < len => h[b + m + 1].role = "assistant" /\ h[b + m + 1].calls # <<>>
    BY <1>1, <2>1, <2>2 DEF LlmOrdered
  <2>4. CASE b < a
    <3>1. b + m < a
      <4>1. b \in 1 .. a - 1
        BY <2>1, <2>4
      <4> QED
        BY <1>2, <2>1, <2>2, <4>1
    <3>2. ASSUME NEW j \in 1 .. m PROVE grown[b + j] = LlmResultOf(cs[j])
      <4>1. b + j \in 1 .. len
        BY <1>1, <2>1, <2>2, <3>1
      <4> QED
        BY <1>9, <2>3, <4>1
    <3>3. grown[b + m + 1].role = "assistant" /\ grown[b + m + 1].calls # <<>>
      <4>1. b + m + 1 \in 1 .. len /\ b + m < len
        BY <1>1, <2>1, <2>2, <3>1
      <4> QED
        BY <1>9, <2>3, <4>1
    <3> QED
      BY <2>2, <3>2, <3>3 DEF cs
  <2>5. CASE b = a
    <3>1. cs = calls /\ m = count
      BY <1>4, <2>1, <2>2, <2>5 DEF calls
    <3>2. ASSUME NEW j \in 1 .. m, b + j <= len + 1 PROVE grown[b + j] = LlmResultOf(cs[j])
      <4>1. CASE b + j = len + 1
        <5>1. j = done + 1
          BY <1>1, <1>6, <2>5, <4>1
        <5> QED
          BY <1>8, <1>9, <3>1, <4>1, <5>1
      <4>2. CASE b + j # len + 1
        <5>1. b + j \in 1 .. len
          BY <2>1, <3>2, <4>2
        <5> QED
          BY <1>9, <2>3, <5>1
      <4> QED
        BY <4>1, <4>2
    <3>3. ~(b + m < len + 1)
      BY <1>1, <1>6, <2>5, <3>1
    <3> QED
      BY <2>2, <3>2, <3>3 DEF cs
  <2> QED
    BY <1>13, <1>14, <2>4, <2>5
<1>15. LlmOrdered(grown)
  BY <1>9, <1>12, <1>14 DEF LlmOrdered
<1>16. grown[a] = h[a] /\ LlmCallsOf(grown[a]) = calls
  BY <1>1, <1>9 DEF calls
<1>17. a \in Nat /\ len = a + done /\ done \in Nat /\ count \in Nat /\ done < count
  <2>1. a \in Nat
    BY <1>1
  <2> QED
    BY <1>1, <1>4, <1>6, <2>1
<1>18. ASSUME Len(left) # 1 PROVE LlmAnswering(grown, a, Tail(left)) /\ Tail(left) # <<>>
  <2>0. count - done # 1
    BY <1>7, <1>18
  <2>1. Len(grown) - a = done + 1 /\ (done + 1) + 1 = done + 2 /\ done + 1 < count
    BY <1>9, <1>17, <2>0
  <2>2. \A b \in 1 .. a - 1 : grown[b] = h[b]
    <3>1. \A b \in 1 .. a - 1 : b \in 1 .. len
      BY <1>1
    <3> QED
      BY <1>9, <3>1
  <2>3. \A b \in 1 .. a - 1 : grown[b].role # "tool" => b + Len(LlmCallsOf(grown[b])) < a
    BY <1>2, <2>2
  <2>4. Tail(left) # <<>>
    <3>1. Tail(left) \in Seq(LlmCallSet) /\ Len(Tail(left)) = Len(left) - 1
      BY <1>7, HeadTailProperties
    <3>2. Len(left) - 1 # 0
      BY <1>6, <1>7, <1>18
    <3> QED
      BY <3>1, <3>2, EmptySeq
  <2> QED
    BY <1>2, <1>4, <1>7, <1>16, <2>1, <2>3, <2>4 DEF LlmAnswering
<1>19. ASSUME Len(left) = 1 PROVE LlmComplete(grown)
  <2>0. count - done = 1
    BY <1>7, <1>19
  <2>1. count = done + 1 /\ a + count = len + 1
    BY <1>17, <2>0
  <2>2. ASSUME NEW b \in 1 .. len + 1, grown[b].role # "tool"
        PROVE  b + Len(LlmCallsOf(grown[b])) <= len + 1
    <3>1. b \in 1 .. len /\ grown[b] = h[b] /\ h[b].role # "tool" /\ (b < a \/ b = a)
      BY <1>13, <2>2
    <3>2. CASE b = a
      <4>1. LlmCallsOf(grown[b]) = calls
        BY <1>16, <3>2
      <4>2. Len(LlmCallsOf(grown[b])) = count
        BY <1>4, <4>1
      <4> QED
        BY <1>1, <1>17, <2>1, <3>2, <4>2
    <3>3. CASE b < a
      <4>1. b \in 1 .. a - 1 /\ Len(LlmCallsOf(h[b])) \in Nat
        BY <1>3, <3>1, <3>3
      <4>2. b + Len(LlmCallsOf(h[b])) < a
        BY <1>2, <3>1, <4>1
      <4> QED
        BY <1>1, <3>1, <4>1, <4>2
    <3> QED
      BY <3>1, <3>2, <3>3
  <2> QED
    BY <1>9, <2>2 DEF LlmComplete
<1> QED
  BY <1>7, <1>15, <1>18, <1>19 DEF grown, said

\* It holds initially,
LEMMA LlmHistoryInit == LlmInit => LlmHistoryInv
BY DEF LlmInit, LlmHistoryInv, LlmOrdered, LlmComplete

\* and after every step: a response is appended to a complete history, and a result is
\* the one of the next call.
LEMMA LlmHistoryNext == LlmInv /\ LlmHistoryInv /\ [LlmNext]_llmVars => LlmHistoryInv'
<1> SUFFICES ASSUME LlmInv, LlmHistoryInv, [LlmNext]_llmVars PROVE LlmHistoryInv'
  OBVIOUS
<1>1. CASE LlmBegin
  <2>1. PICK h : h = <<LlmUser>>
    OBVIOUS
  <2>2. Len(h) = 1 /\ h[1] = LlmUser /\ h # <<>>
    BY <2>1
  <2>3. LlmUser.role = "user" /\ LlmCallsOf(LlmUser) = <<>> /\ Len(<<>>) = 0
    BY DEF LlmUser, LlmCallsOf
  <2>4. LlmOrdered(h) /\ LlmComplete(h)
    BY <2>2, <2>3 DEF LlmOrdered, LlmComplete
  <2> QED
    BY <1>1, <2>1, <2>2, <2>4 DEF LlmBegin, LlmHistoryInv
<1>2. CASE LlmAsk
  BY <1>2 DEF LlmAsk, LlmHistoryInv
<1>3. CASE LlmCallArrives
  BY <1>3 DEF LlmCallArrives, LlmHistoryInv
<1>4. CASE LlmRespond
  <2>1. CASE llmCalls = <<>>
    BY <1>4, <2>1 DEF LlmRespond, LlmHistoryInv
  <2>2. CASE llmCalls # <<>>
    <3>1. PICK h : h = Append(llmMessages, [role |-> "assistant", calls |-> llmCalls])
      OBVIOUS
    <3>2. /\ llmMessages \in Seq(LlmMessageSet) /\ llmCalls \in Seq(LlmCallSet)
          /\ LlmOrdered(llmMessages) /\ LlmComplete(llmMessages) /\ llmMessages # <<>>
      BY <1>4 DEF LlmRespond, LlmInv, LlmHistoryInv
    <3>3. LlmOrdered(h) /\ \E a \in 1 .. Len(h) : LlmAnswering(h, a, llmCalls)
      BY <2>2, <3>1, <3>2, LlmCallsAreAsked
    <3>4. h # <<>>
      <4>1. ~(\E a \in 1 .. 0 : TRUE)
        OBVIOUS
      <4> QED
        BY <3>3, <4>1, EmptySeq
    <3> QED
      BY <1>4, <2>2, <3>1, <3>3, <3>4 DEF LlmRespond, LlmHistoryInv
  <2> QED
    BY <2>1, <2>2
<1>5. CASE LlmCut
  BY <1>5 DEF LlmCut, LlmHistoryInv
<1>6. CASE LlmFail
  BY <1>6 DEF LlmFail, LlmHistoryInv
<1>7. CASE LlmExecute
  <2>1. PICK h : h = Append(llmMessages, LlmResultOf(Head(llmCalls)))
    OBVIOUS
  <2>2. PICK a \in 1 .. Len(llmMessages) : LlmAnswering(llmMessages, a, llmCalls)
    BY <1>7 DEF LlmExecute, LlmHistoryInv
  <2>3. /\ llmMessages \in Seq(LlmMessageSet) /\ llmCalls \in Seq(LlmCallSet)
        /\ LlmOrdered(llmMessages)
    BY DEF LlmInv, LlmHistoryInv
  <2>4. /\ llmCalls # <<>> /\ LlmOrdered(h)
        /\ Len(llmCalls) # 1 => LlmAnswering(h, a, Tail(llmCalls)) /\ Tail(llmCalls) # <<>>
        /\ Len(llmCalls) = 1 => LlmComplete(h)
    BY <2>1, <2>2, <2>3, LlmResultIsNext
  <2>5. LlmResultOf(Head(llmCalls)) \in LlmMessageSet
    <3>1. Head(llmCalls) \in LlmCallSet
      BY <2>3, <2>4, HeadTailProperties
    <3> QED
      BY <3>1 DEF LlmResultOf, LlmMessageSet, LlmCallSet
  <2>6. Len(h) = Len(llmMessages) + 1 /\ h \in Seq(LlmMessageSet)
    BY <2>1, <2>3, <2>5, AppendProperties
  <2>7. h # <<>> /\ a \in 1 .. Len(h)
    <3>1. Len(llmMessages) \in Nat
      BY <2>3, LenProperties
    <3>2. Len(h) # 0 /\ a \in 1 .. Len(h)
      BY <2>6, <3>1
    <3> QED
      BY <3>2, EmptySeq
  <2>8. /\ llmMessages' = h /\ llmCalls' = Tail(llmCalls)
        /\ llmSaved' = LlmSaves(h, Tail(llmCalls))
        /\ llmAt' = IF Len(llmCalls) = 1 THEN "ready" ELSE "tools"
    BY <1>7, <2>1 DEF LlmExecute, LlmResultOf
  <2>9. LlmOrdered(llmSaved'.messages) /\ LlmComplete(llmSaved'.messages)
    <3>1. LlmOrdered(llmSaved.messages) /\ LlmComplete(llmSaved.messages)
      BY DEF LlmHistoryInv
    <3>2. Tail(llmCalls) = <<>> => Len(llmCalls) = 1
      BY <2>4
    <3>3. CASE llmSetup.streams \/ Tail(llmCalls) # <<>>
      BY <2>8, <3>1, <3>3 DEF LlmSaves
    <3>4. CASE ~(llmSetup.streams \/ Tail(llmCalls) # <<>>)
      <4>1. llmSaved'.messages = h
        BY <2>8, <3>4 DEF LlmSaves
      <4> QED
        BY <2>4, <3>2, <3>4, <4>1
    <3> QED
      BY <3>3, <3>4
  <2>10. CASE Len(llmCalls) = 1
    BY <2>4, <2>7, <2>8, <2>9, <2>10 DEF LlmHistoryInv
  <2>11. CASE Len(llmCalls) # 1
    BY <2>4, <2>7, <2>8, <2>9, <2>11 DEF LlmHistoryInv
  <2> QED
    BY <2>10, <2>11
<1>8. CASE LlmRestart
  BY <1>8 DEF LlmRestart, LlmHistoryInv
<1>9. CASE UNCHANGED llmVars
  BY <1>9 DEF llmVars, LlmHistoryInv
<1> QED
  BY <1>1, <1>2, <1>3, <1>4, <1>5, <1>6, <1>7, <1>8, <1>9 DEF LlmNext

\* In every request each call is answered, in order and before anything else is said, by
\* its own result; and with Claude the roles alternate.  For any tools, any number of
\* iterations and of calls in a response.
THEOREM LlmRequestsAnswered == LlmSpec => [](EveryCallIsAnswered /\ ClaudeTurnsAlternate)
<1>1. LlmInv /\ LlmHistoryInv => EveryCallIsAnswered /\ ClaudeTurnsAlternate
  <2> SUFFICES ASSUME LlmInv, LlmHistoryInv, llmAt = "asked"
               PROVE  EveryCallIsAnswered /\ ClaudeTurnsAlternate
    BY DEF EveryCallIsAnswered, ClaudeTurnsAlternate
  <2>1. /\ llmMessages \in Seq(LlmMessageSet) /\ llmMessages # <<>>
        /\ LlmOrdered(llmMessages) /\ LlmComplete(llmMessages)
    BY DEF LlmInv, LlmHistoryInv
  <2> DEFINE request == LlmTranslate(llmSetup.provider, llmMessages)
  <2>2. \A q \in DOMAIN request :
          /\ request[q].calls # <<>> => LlmIsAnswered(llmSetup.provider, request, q)
          /\ llmSetup.provider = "claude" =>
               request[q].role = IF q % 2 = 1 THEN "user" ELSE "assistant"
    BY <2>1, LlmCompleteIsAnswered
  <2>3. LlmRequest = request
    BY DEF LlmRequest
  <2> HIDE DEF request
  <2> QED
    BY <2>2, <2>3 DEF EveryCallIsAnswered, ClaudeTurnsAlternate
<1> QED
  BY <1>1, LlmInvInit, LlmInvNext, LlmHistoryInit, LlmHistoryNext, PTL DEF LlmSpec

-------------------------------------------------------------------------------
(* The parts together. *)

\* A behaviour of all the parts is one of each of them.
LEMMA ServicesAreParts ==
  ServicesSpec =>
    /\ AcpSpec /\ UcpSpec /\ WireSpec /\ ProfileSpec /\ ShopSpec /\ StoreSpec
    /\ LlmSpec /\ ChainSpec /\ TeamSpec /\ PlaySpec /\ SubSpec /\ SignedSpec
<1>1. ServicesInit =>
        /\ AcpInit /\ UcpInit /\ WireInit /\ ProfileInit /\ ShopInit /\ StoreInit
        /\ LlmInit /\ ChainInit /\ TeamInit /\ PlayInit /\ SubInit /\ SignedInit
  BY DEF ServicesInit
<1>2. [ServicesNext]_servicesVars => [AcpNext]_acpVars /\ [UcpNext]_ucpVars
  BY DEF ServicesNext, MerchantsNext, servicesVars, merchantVars
<1>3. [ServicesNext]_servicesVars => [WireNext]_wireVars /\ [ProfileNext]_profilesVars
  BY DEF ServicesNext, servicesVars
<1>4. [ServicesNext]_servicesVars => [ShopNext]_shopVars /\ [StoreNext]_storeVars
  BY DEF ServicesNext, servicesVars
<1>5. [ServicesNext]_servicesVars => [LlmNext]_llmVars /\ [ChainNext]_chainVars
  BY DEF ServicesNext, servicesVars
<1>6. [ServicesNext]_servicesVars => [TeamNext]_teamVars /\ [PlayNext]_playVars
  BY DEF ServicesNext, servicesVars
<1>7. [ServicesNext]_servicesVars => [SubNext]_subVars /\ [SignedNext]_signedVars
  BY DEF ServicesNext, servicesVars
<1> QED
  BY <1>1, <1>2, <1>3, <1>4, <1>5, <1>6, <1>7, PTL
  DEF ServicesSpec, AcpSpec, UcpSpec, WireSpec, ProfileSpec, ShopSpec, StoreSpec, LlmSpec,
      ChainSpec, TeamSpec, PlaySpec, SubSpec, SignedSpec

\* The call that nobody evaluates is a call.
LEMMA PolicyAtRestIsTyped == PolicyAtRest => EvaluationInv
<1> SUFFICES ASSUME PolicyAtRest PROVE EvaluationInv
  OBVIOUS
<1>1. policies \in Seq(Policies) /\ Len(policies) = 0 /\ DOMAIN policies = {}
  BY DEF PolicyAtRest
<1>2. PolicyTypeOK
  BY <1>1, ServicesAssumption
  DEF PolicyAtRest, PolicyTypeOK, Arguments, Hours, ServicesAssumption
<1> QED
  BY <1>1, <1>2 DEF PolicyAtRest, EvaluationInv, LookedAt, Blocking, Rejecting

\* Every part stays in its types.
THEOREM ServicesTypeCorrect == ServicesSpec => []ServicesTypeOK
<1>1. ServicesInit => EvaluationInv
  BY EvaluationInit, PolicyAtRestIsTyped DEF ServicesInit
<1>2. [ServicesNext]_servicesVars => [PolicyNext]_policyVars
  BY DEF ServicesNext, servicesVars
<1>3. ServicesSpec => []PolicyTypeOK
  <2>1. EvaluationInv => PolicyTypeOK
    BY DEF EvaluationInv
  <2> QED
    BY <1>1, <1>2, <2>1, EvaluationNext, PTL DEF ServicesSpec
<1>4. LlmSpec => []LlmTypeOK
  BY LlmInvInit, LlmInvNext, LlmInvIsTyped, PTL DEF LlmSpec
<1>5. (/\ AcpTypeOK /\ UcpTypeOK /\ WireTypeOK /\ ProfileTypeOK /\ ShopTypeOK /\ StoreTypeOK
       /\ PolicyTypeOK /\ LlmTypeOK /\ ChainTypeOK /\ TeamTypeOK /\ PlayTypeOK
       /\ SubTypeOK /\ SignedTypeOK) => ServicesTypeOK
  BY DEF ServicesTypeOK
<1> QED
  BY <1>3, <1>4, <1>5, ServicesAreParts, AcpInvariant, UcpInvariant, WireCallsAreSound,
     LineageIsTheChain, ShopPurchasesAreReal, StoreKeepsSessions, ChainHaltsAndNests,
     TeamKeepsOwnerAndLog, PlayPageIsTrue, SubStatusSettles, SignedPaymentsAreKnown, PTL

\* A call of the UCP client orders once, unless the fallback of auto repeats a completion
\* that was carried out; it orders from the merchant discovered, and succeeds only if it
\* ordered; and lineages are whole: for any number of calls, merchants and profiles.
THEOREM ServicesTransport == ServicesSpec => []TransportIsSound
<1>1. (/\ OnlyFallbackOrdersTwice /\ CallsReachDiscovered /\ SuccessIsReal
       /\ LineageClimbs /\ LineageIsWhole) => TransportIsSound
  BY DEF TransportIsSound
<1> QED
  BY <1>1, ServicesAreParts, WireCallsAreSound, LineageIsTheChain, PTL

\* What an adapter or a signed payment reports has happened, for any products, variants,
\* payments, lifetimes and clock skew.
THEOREM ServicesPurchases == ServicesSpec => []PurchasesAreReal
<1>1. (/\ OrdersAreBilled /\ ReportedPurchaseExists
       /\ GivenUpIsNotPaid /\ KnownPaymentWasTaken) => PurchasesAreReal
  BY DEF PurchasesAreReal
<1> QED
  BY <1>1, ServicesAreParts, ShopPurchasesAreReal, SignedPaymentsAreKnown, PTL

\* Sessions load whole and listed, wherever a crash strikes.
THEOREM ServicesStorage == ServicesSpec => []StorageIsSound
<1>1. LoadedIsWhole /\ SavedIsListed => StorageIsSound
  BY DEF StorageIsSound
<1> QED
  BY <1>1, ServicesAreParts, StoreKeepsSessions, PTL

\* Requests are well formed, whatever the other parts do.
THEOREM ServicesRequests == ServicesSpec => []RequestsAreWellFormed
<1>1. EveryCallIsAnswered /\ ClaudeTurnsAlternate => RequestsAreWellFormed
  BY DEF RequestsAreWellFormed
<1> QED
  BY <1>1, ServicesAreParts, LlmRequestsAnswered, PTL

\* Chains halt, their spans nest and their steps name their reports.
THEOREM ServicesChain == ServicesSpec => []ChainIsSound
<1>1. ChainHalts /\ SpansAreNested /\ StepsNameTheirReports => ChainIsSound
  BY DEF ChainIsSound
<1> QED
  BY <1>1, ServicesAreParts, ChainHaltsAndNests, PTL

\* Organisations keep an owner, and the audit log tells the truth.
THEOREM ServicesTeams == ServicesSpec => []TeamIsSound /\ OwnersStay
<1>1. MembersHaveAnOwner /\ AuditIsTrue => TeamIsSound
  BY DEF TeamIsSound
<1> QED
  BY <1>1, ServicesAreParts, TeamKeepsOwnerAndLog, TeamOwnersStay, PTL

\* The playground's page works exactly while it awaits a turn, shows a cart of the agent
\* that its next turn talks to, at rest as that cart is, unless it was last changed in a
\* way that the page is not told of; and what add_to_cart added is in the cart.
THEOREM ServicesPlayground == ServicesSpec => []PageIsTrue /\ AddIsInCart
<1>1. RunningIsShown /\ ShownCartIsReached /\ ShownCartIsCurrent => PageIsTrue
  BY DEF PageIsTrue
<1> QED
  BY <1>1, ServicesAreParts, PlayPageIsTrue, PlayAddReachesCart, PTL

\* When its events are delivered in order, however often one is repeated or fails, the row
\* of a customer settles on the status of the subscription.
THEOREM ServicesStripe == ServicesSpec => []StatusSettles
BY ServicesAreParts, SubStatusSettles, PTL
===============================================================================
