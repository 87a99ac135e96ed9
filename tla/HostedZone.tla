----------------------------- MODULE HostedZone -----------------------------
(***************************************************************************)
(* The DNS record of a deployment with a domain.  The hosted zones of the  *)
(* account are listed in any order, page by page, and the one with the     *)
(* longest name that the domain ends with is kept                          *)
(* (FindLongestMatchingHostedZone); the record is named by what is left of *)
(* the domain (setHostedZone).  A listing may fail after some of its       *)
(* pages: on AWS nothing is returned then, on GCP the zone found so far    *)
(* together with the error.  Names are sequences of letters, of which one  *)
(* is the dot.                                                             *)
(***************************************************************************)
EXTENDS Naturals, Sequences, SequencesExt

CONSTANTS Letter,       \* what names are made of
          Dot,
          DomainName,   \* the domains that are given
          ZoneName      \* the hosted zones there may be

ASSUME NamesAreOfLetters ==
  Dot \in Letter /\ DomainName \union ZoneName \subseteq Seq(Letter)

VARIABLES zones,        \* the hosted zones there are
          domain,       \* the domain of the deploy
          listed,       \* the zones that were listed for it
          longest,      \* the zone kept of these, "" if there is none
          prefix,       \* the name of the record, in that zone
          search        \* "none", "listing", "found" or "failed"

zoneVars == <<zones, domain, listed, longest, prefix, search>>

ZoneTypeOK ==
  /\ zones \subseteq ZoneName /\ listed \subseteq ZoneName
  /\ domain \in DomainName \union {<<>>} /\ longest \in ZoneName \union {<<>>}
  /\ prefix \in Seq(Letter)
  /\ search \in {"none", "listing", "found", "failed"}

ZoneInit ==
  /\ zones = {} /\ listed = {} /\ search = "none"
  /\ domain = <<>> /\ longest = <<>> /\ prefix = <<>>

\* strings.HasSuffix, with a dot before the zone's name or without.
Matches(z, d) == IsSuffix(z, d)

\* The name of the zone, with a dot before it, is cut off the domain; a domain
\* that does not end that way stays as it is.
Prefix(d, z) ==
  IF IsSuffix(<<Dot>> \o z, d) THEN SubSeq(d, 1, Len(d) - Len(z) - 1) ELSE d

\* Zones come and go between deploys.
ZonesChange ==
  /\ search = "none"
  /\ zones' \in SUBSET ZoneName
  /\ UNCHANGED <<domain, listed, longest, prefix, search>>

\* A run of deploy whose config has a domain, given now or before.
ListZones ==
  /\ search = "none"
  /\ domain' \in DomainName
  /\ listed' = {} /\ longest' = <<>> /\ search' = "listing"
  /\ UNCHANGED <<zones, prefix>>

\* The loop over the zones.
LookAt(z) ==
  /\ search = "listing" /\ z \in zones \ listed
  /\ listed' = listed \union {z}
  /\ longest' = IF Matches(z, domain) /\ Len(z) > Len(longest) THEN z ELSE longest
  /\ UNCHANGED <<zones, domain, prefix, search>>

\* Mutant: what was found on the pages before is good enough.
ListingBreaksOff ==
  /\ search = "listing"
  /\ search' = IF longest = <<>> THEN "failed" ELSE "found"
  /\ UNCHANGED <<zones, domain, listed, longest, prefix>>

\* A page cannot be had: setHostedZone gives up whatever was found before.
ListingFails ==
  /\ search = "listing"
  /\ search' = "failed"
  /\ UNCHANGED <<zones, domain, listed, longest, prefix>>

\* No zone matches: the deploy fails and Terraform is not run.
NoMatchingZone ==
  /\ search = "listing" /\ listed = zones /\ longest = <<>>
  /\ search' = "failed"
  /\ UNCHANGED <<zones, domain, listed, longest, prefix>>

\* setHostedZone: the zone is kept in the config and goes to Terraform.
SetHostedZone ==
  /\ search = "listing" /\ listed = zones /\ longest # <<>>
  /\ prefix' = Prefix(domain, longest)
  /\ search' = "found"
  /\ UNCHANGED <<zones, domain, listed, longest>>

\* The command ends.
SearchEnds ==
  /\ search \in {"found", "failed"}
  /\ search' = "none"
  /\ UNCHANGED <<zones, domain, listed, longest, prefix>>

ZoneNext ==
  \/ ZonesChange \/ ListZones \/ ListingFails \/ NoMatchingZone \/ SetHostedZone
  \/ SearchEnds
  \/ \E z \in ZoneName : LookAt(z)

ZoneSpec == ZoneInit /\ [][ZoneNext]_zoneVars
-----------------------------------------------------------------------------
\* A deploy goes on only with a zone that there is, that its domain ends with, and
\* that no other zone of the account beats, in whatever order they are listed and
\* wherever a listing breaks off.  Otherwise the record would be in a zone that the
\* zone below it hides from DNS.
LongestZoneIsTaken ==
  search = "found" =>
    /\ longest \in zones /\ Matches(longest, domain)
    /\ \A z \in zones : Matches(z, domain) => Len(z) <= Len(longest)
=============================================================================
