---------------------------- MODULE MCCertPages ----------------------------
(* Small instances of CertPages for TLC. *)
EXTENDS CertPages, TLC

CONSTANTS about, aboutSlash,  \* /about and /about/
          news, home, admin   \* /news, / and the gated /admin

\* Exact paths; "/" has no entry.
ExactEntries == about :> about @@ news :> news @@ admin :> admin @@ home :> NoKey
\* Two spellings of a path match one route.
AliasEntries == about :> about @@ aboutSlash :> aboutSlash

OwnNodes == [k \in Keys |-> k]
\* Paths are split at the slashes and empty segments dropped.
AliasNodes == about :> about @@ aboutSlash :> about
=============================================================================
