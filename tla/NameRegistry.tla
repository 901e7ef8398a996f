---------------------------- MODULE NameRegistry -----------------------------
(***************************************************************************)
(* What an index that spans partitions promises of names: a name is        *)
(* claimed in the index, for one owner, before the owner's row holds it.   *)
(* The claim and the row are records [owner, name]; the row of an owner    *)
(* holds one name.                                                         *)
(***************************************************************************)

VARIABLES claims,  \* the entries of the index
          holds    \* the rows

vars == <<claims, holds>>

RegistryInit == claims = {} /\ holds = {}

\* A name that no other owner has is claimed.
Claim(c) ==
  /\ \A d \in claims : d.name = c.name => d.owner = c.owner
  /\ claims' = claims \cup {c}
  /\ UNCHANGED holds

\* The owner of a claim writes it into its row, over the name there was.
Hold(c) ==
  /\ c \in claims
  /\ holds' = {h \in holds : h.owner # c.owner} \cup {c}
  /\ UNCHANGED claims

\* A row stops holding a name ...
LetGo(h) ==
  /\ holds' = holds \ {h}
  /\ UNCHANGED claims

\* ... and a claim no row holds is given up.
Free(c) ==
  /\ c \notin holds
  /\ claims' = claims \ {c}
  /\ UNCHANGED holds

Lasting == (\E c \in claims' : Claim(c)) \/ (\E c \in claims : Hold(c))
Returning == (\E h \in holds : LetGo(h)) \/ (\E c \in claims : Free(c))

\* A name once given stays with its owner for ever.
LastingSpec == RegistryInit /\ [][Lasting]_vars
\* Then no row holds a name without its claim.
HoldsAreClaimed == holds \subseteq claims

\* A name may come back and be given to another owner.
Spec == RegistryInit /\ [][Lasting \/ Returning]_vars
=============================================================================
