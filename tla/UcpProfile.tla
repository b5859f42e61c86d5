------------------------------ MODULE UcpProfile ------------------------------
(***************************************************************************)
(* What UcpClient does with a merchant's profile: it looks for one at the  *)
(* well-known places, keeps its capabilities as one list whichever of the  *)
(* two formats they came in, and follows the extends of a capability up to *)
(* its base.  A profile may name a capability twice, extend one it does    *)
(* not have, or extend in a circle.  Running the walk of a lineage is      *)
(* synchronous: no discovery comes in between.                             *)
(***************************************************************************)
EXTENDS FiniteSets, Integers, Sequences

CONSTANTS
  CapNames,
  Profiles      \* the capabilities of the profiles there are, normalised to a list

Capabilities == [name : CapNames, extends : CapNames \cup {"none"}]
NoCapability == [name |-> "none", extends |-> "none"]

ASSUME ProfileAssumption ==
  /\ IsFiniteSet(CapNames) /\ "none" \notin CapNames
  /\ Profiles \subseteq Seq(Capabilities)

VARIABLES
  probeInput,     \* how the domain was written that discover() works on
  probeNext,      \* the next place to look at
  profileGiven,   \* the input of the cached discovery
  profileScheme,  \* the scheme its profile was fetched with
  profileCaps,    \* its capabilities
  lineageAt,      \* getCapabilityLineage(): "idle", "walking" or "done"
  lineageOf,      \* the name asked for
  lineageNext,    \* current, the capability to go on with
  lineageSeen,    \* seen
  lineageOut      \* lineage

profileVars == <<profileGiven, profileScheme, profileCaps>>
probeVars == <<probeInput, probeNext>>
lineageVars == <<lineageAt, lineageOf, lineageNext, lineageSeen, lineageOut>>
profilesVars == <<probeVars, profileVars, lineageVars>>

ProfileInputs == {"bare", "http", "https"}
ProfileSchemes == {"https", "http"}
ProfileInit ==
  /\ probeInput = "none" /\ probeNext = 1
  /\ profileGiven = "none" /\ profileScheme = "none" /\ profileCaps = <<>>
  /\ lineageAt = "idle" /\ lineageOf = "none" /\ lineageNext = NoCapability
  /\ lineageSeen = {} /\ lineageOut = <<>>

\* Two paths under each base URL; http is tried after https.
ProfilePlaces(input) ==
  IF input = "http" THEN <<"http", "http">> ELSE <<"https", "https", "http", "http">>

ProfileTypeOK ==
  /\ probeInput \in ProfileInputs \cup {"none"}
  /\ probeNext \in 1 .. Len(ProfilePlaces(probeInput))
  /\ profileGiven \in ProfileInputs \cup {"none"}
  /\ profileScheme \in ProfileSchemes \cup {"none"}
  /\ profileCaps \in Profiles \cup {<<>>}
  /\ lineageAt \in {"idle", "walking", "done"}
  /\ lineageOf \in CapNames \cup {"none"}
  /\ lineageNext \in Capabilities \cup {NoCapability}
  /\ lineageSeen \subseteq CapNames
  /\ lineageOut \in Seq(Capabilities)

-------------------------------------------------------------------------------
(* Faulty variants, see AcpMerchant. *)

LineageMayVisit_Any(c) == c # NoCapability

-------------------------------------------------------------------------------
(* Discovery. *)

ProfileDiscover(input) ==
  /\ probeInput = "none" /\ lineageAt # "walking"
  /\ probeInput' = input /\ probeNext' = 1
  /\ UNCHANGED <<profileVars, lineageVars>>

\* No connection, an error, or no JSON: the next place, or discover() throws and
\* leaves the last result cached.
ProfileMissing ==
  /\ probeInput # "none" /\ lineageAt # "walking"
  /\ IF probeNext < Len(ProfilePlaces(probeInput))
     THEN probeNext' = probeNext + 1 /\ UNCHANGED probeInput
     ELSE probeNext' = 1 /\ probeInput' = "none"
  /\ UNCHANGED <<profileVars, lineageVars>>

\* A profile is found: it is cached, unless it has no "ucp" root.
ProfileFound ==
  /\ probeInput # "none" /\ lineageAt # "walking"
  /\ \/ /\ profileCaps' \in Profiles
        /\ profileScheme' = ProfilePlaces(probeInput)[probeNext]
        /\ profileGiven' = probeInput
        /\ lineageAt' = "idle" /\ lineageOut' = <<>>
        /\ UNCHANGED <<lineageOf, lineageNext, lineageSeen>>
     \/ UNCHANGED <<profileVars, lineageVars>>
  /\ probeInput' = "none" /\ probeNext' = 1

-------------------------------------------------------------------------------
(* The lineage of a capability. *)

\* getCapability(): the first entry of the name.
CapabilityNamed(name) ==
  IF \E i \in DOMAIN profileCaps : profileCaps[i].name = name
  THEN profileCaps[CHOOSE i \in DOMAIN profileCaps :
         /\ profileCaps[i].name = name
         /\ \A j \in 1 .. i - 1 : profileCaps[j].name # name]
  ELSE NoCapability

LineageAsk(name) ==
  /\ profileScheme # "none" /\ lineageAt = "idle"
  /\ lineageAt' = "walking" /\ lineageOf' = name
  /\ lineageNext' = CapabilityNamed(name)
  /\ lineageSeen' = {} /\ lineageOut' = <<>>
  /\ UNCHANGED <<probeVars, profileVars>>

LineageMayVisit(c) == c # NoCapability /\ c.name \notin lineageSeen

LineageVisit ==
  /\ lineageAt = "walking" /\ LineageMayVisit(lineageNext)
  /\ lineageSeen' = lineageSeen \cup {lineageNext.name}
  /\ lineageOut' = Append(lineageOut, lineageNext)
  /\ IF lineageNext.extends = "none"
     THEN lineageAt' = "done" /\ UNCHANGED lineageNext
     ELSE lineageNext' = CapabilityNamed(lineageNext.extends) /\ UNCHANGED lineageAt
  /\ UNCHANGED <<probeVars, profileVars, lineageOf>>

LineageStop ==
  /\ lineageAt = "walking" /\ ~LineageMayVisit(lineageNext)
  /\ lineageAt' = "done"
  /\ UNCHANGED <<probeVars, profileVars, lineageOf, lineageNext, lineageSeen, lineageOut>>

LineageReturn ==
  /\ lineageAt = "done" /\ lineageAt' = "idle"
  /\ lineageOut' = <<>>
  /\ UNCHANGED <<probeVars, profileVars, lineageOf, lineageNext, lineageSeen>>

ProfileNext ==
  \/ \E input \in ProfileInputs : ProfileDiscover(input)
  \/ ProfileMissing \/ ProfileFound
  \/ \E name \in CapNames : LineageAsk(name)
  \/ LineageVisit \/ LineageStop \/ LineageReturn

ProfileSpec == ProfileInit /\ [][ProfileNext]_profilesVars

-------------------------------------------------------------------------------
(* Properties. *)

LineageLast == lineageOut[Len(lineageOut)]

\* The lineage starts at the capability asked for, goes from each to the one it
\* extends, and has none twice, so that the walk ends, whatever circles and
\* repetitions the profile has;
LineageClimbs ==
  /\ lineageOut # <<>> => lineageOut[1] = CapabilityNamed(lineageOf)
  /\ \A i \in 2 .. Len(lineageOut) :
       lineageOut[i] = CapabilityNamed(lineageOut[i - 1].extends)
  /\ \A i, j \in DOMAIN lineageOut : lineageOut[i].name = lineageOut[j].name => i = j
  /\ Len(lineageOut) <= Cardinality(CapNames)

\* and it ends only at a base, at a parent the profile has not, or where a circle
\* closes.
LineageIsWhole ==
  lineageAt = "done" =>
    IF lineageOut = <<>> THEN CapabilityNamed(lineageOf) = NoCapability
    ELSE LET parent == CapabilityNamed(LineageLast.extends) IN
           \/ parent = NoCapability
           \/ \E i \in DOMAIN lineageOut : lineageOut[i] = parent
===============================================================================
