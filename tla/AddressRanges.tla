--------------------------- MODULE AddressRanges ----------------------------
(***************************************************************************)
(* What `deploy` accepts as the address ranges of the network, its public  *)
(* and private subnets and the two subnets of the database, before it does *)
(* anything (validateNetworkRanges in commands/deploy/deploy_args.go,      *)
(* validateCidrRanges in commands/deploy.go).  A range in CIDR notation is *)
(* the set of its addresses.                                               *)
(***************************************************************************)
EXTENDS Naturals, FiniteSets

CONSTANTS Block,        \* the ranges
          First,        \* the first address of each, net.IPNet.IP
          NoFlag,       \* a flag is not given
          NoRange       \* what a flag is given is not a range

\* Two ranges in CIDR notation have no address in common, unless one is within
\* the other.
ASSUME BlocksNest ==
  /\ \A b \in Block : IsFiniteSet(b) /\ First[b] \in b
  /\ \A b, c \in Block : b \subseteq c \/ c \subseteq b \/ b \intersect c = {}

ASSUME FlagsAreRangesOrNot == NoFlag \notin Block /\ NoRange \notin Block /\ NoFlag # NoRange

VARIABLES ranges,       \* the flags of a deploy: network, public, private, rds1, rds2
          verdict       \* what became of them

rangesVars == <<ranges, verdict>>

Flag == {"network", "public", "private", "rds1", "rds2"}
Value == Block \union {NoFlag, NoRange}

RangesTypeOK ==
  /\ ranges \in [Flag -> Value]
  /\ verdict \in {"none", "refused", "AWS", "GCP"}

RangesInit == ranges = [f \in Flag |-> NoFlag] /\ verdict = "none"

\* net.ParseCIDR; a flag that is not given does not pass it either.
IsRange(r, f) == r[f] \in Block

\* cidrSize; the messages speak of /26, /28 and /29.
BigEnough(b, n) == Cardinality(b) > n

NoneGiven(r) == \A f \in Flag : r[f] = NoFlag

SubnetsAreRanges(r) ==
  \A f \in {"public", "private"} : IsRange(r, f) /\ BigEnough(r[f], 8)

NetworkIsRange(r) ==
  /\ IsRange(r, "network") /\ BigEnough(r["network"], 16)
  /\ \A f \in {"rds1", "rds2"} : IsRange(r, f) /\ BigEnough(r[f], 4)

\* Contains is asked for the first address of the other range.
WithinNetwork(r, f) == First[r[f]] \in r["network"]

\* Mutant: an overlap is looked for in one direction only.
OverlapsOneWay(r) == First[r["private"]] \in r["public"]

SubnetsOverlap(r) ==
  First[r["private"]] \in r["public"] \/ First[r["public"]] \in r["private"]

AcceptedOnAWS(r) ==
  \/ NoneGiven(r)
  \/ /\ NetworkIsRange(r) /\ SubnetsAreRanges(r)
     /\ \A f \in Flag \ {"network"} : WithinNetwork(r, f)
     /\ ~SubnetsOverlap(r)

\* On GCP the network and the ranges of the database are not looked at.
AcceptedOnGCP(r) == NoneGiven(r) \/ SubnetsAreRanges(r)

ValidateOnAWS ==
  /\ verdict = "none"
  /\ ranges' \in [Flag -> Value]
  /\ verdict' = IF AcceptedOnAWS(ranges') THEN "AWS" ELSE "refused"

ValidateOnGCP ==
  /\ verdict = "none"
  /\ ranges' \in [Flag -> Value]
  /\ verdict' = IF AcceptedOnGCP(ranges') THEN "GCP" ELSE "refused"

\* Another command is given.
NextCommand ==
  /\ verdict # "none"
  /\ ranges' = [f \in Flag |-> NoFlag] /\ verdict' = "none"

RangesNext == ValidateOnAWS \/ ValidateOnGCP \/ NextCommand

RangesSpec == RangesInit /\ [][RangesNext]_rangesVars
-----------------------------------------------------------------------------
\* The public and the private subnet that a deploy to AWS is accepted with are in
\* the network, all of their addresses, and have none in common, although
\* validateCidrRanges looks at first addresses only.  It is the test for overlaps
\* that keeps each of them from being larger than the network.  The subnets of the
\* database are not tested for overlaps, and for them neither holds: one may be
\* larger than the network and cover it and the other four.
PublicAndPrivateFit ==
  verdict = "AWS" /\ ~NoneGiven(ranges) =>
    /\ ranges["public"] \subseteq ranges["network"]
    /\ ranges["private"] \subseteq ranges["network"]
    /\ ranges["public"] \intersect ranges["private"] = {}
=============================================================================
