------------------------------ MODULE NatsKeys ------------------------------
(***************************************************************************)
(* The NATS key material of a BOSH director and of the agents on the VMs   *)
(* it manages, as resource/assets/manifest.yml and the two operations      *)
(* files of the rotation lay it out.  A certificate is represented by the  *)
(* CA that signed it: that is all the two ends of a connection look at.    *)
(***************************************************************************)
EXTENDS FiniteSets

CONSTANTS CA,       \* the certificate authorities that can ever be generated
          NoCA      \* a variable that is missing from director-creds.yml

ASSUME NoCAIsNoCA == NoCA \notin CA

\* director-creds.yml, its nats_* variables: `ca` stands for nats_ca and the
\* three certificates it signs, `ca2` for nats_ca_2 and the three it signs.
Creds == [ca : CA \union {NoCA}, ca2 : CA \union {NoCA}]

NoCreds == [ca |-> NoCA, ca2 |-> NoCA]

\* properties/nats/tls of the director: the CAs trusted, the signers of the
\* server certificate and of the director's and the health monitor's client
\* certificates, and the CA that signs the certificates handed to agents.
DirectorKeys == [trust : SUBSET CA, server : CA, client : CA, issuer : CA]

\* What a VM is given when it is created: the CAs its agent trusts and the
\* signer of its own certificate.
AgentKeys == [trust : SUBSET CA, cert : CA]

-----------------------------------------------------------------------------
\* The manifest as it stands: one CA for everything.
Steady(c) == [trust |-> {c}, server |-> c, client |-> c, issuer |-> c]

\* The manifest with add-new-ca.yml: both CAs are trusted, clients and agents
\* get certificates of the new one, the server keeps its old certificate.
Overlap(c, n) == [trust |-> {c, n}, server |-> c, client |-> n, issuer |-> n]

\* The keys a VM receives when a director that holds d creates it.
Issued(d) == [trust |-> d.trust, cert |-> d.issuer]

\* The NATS server takes the agent's certificate and those of the director and
\* the health monitor, and each client takes the server's.
Connected(d, a) ==
  /\ a.cert \in d.trust
  /\ d.client \in d.trust
  /\ d.server \in a.trust
  /\ d.server \in d.trust

\* The director that create-env builds from the variables in k: the manifest
\* alone (what deploy asks for), with add-new-ca.yml, with remove-old-ca.yml.
DirectorFrom(ops, k) ==
  CASE ops = "base"          -> Steady(k.ca)
    [] ops = "add-new-ca"    -> Overlap(k.ca, k.ca2)
    [] ops = "remove-old-ca" -> Steady(k.ca2)

\* The variables create-env holds after it generated those the manifest asks
\* for and the file k did not have; every new CA is one never seen before.
Filled(ops, k, seen) ==
  { f \in Creds :
      /\ f.ca = k.ca \/ (k.ca = NoCA /\ f.ca \in CA \ seen)
      /\ f.ca # NoCA
      /\ IF ops = "base"
         THEN f.ca2 = k.ca2
         ELSE /\ f.ca2 # NoCA
              /\ f.ca2 = k.ca2 \/ (k.ca2 = NoCA /\ f.ca2 \in CA \ (seen \union {f.ca})) }

\* The CAs the file k holds.
Held(k) == {k.ca, k.ca2} \ {NoCA}
=============================================================================
