------------------------------ MODULE SeasonRows ------------------------------
(* What the readers of $$seasons rely on, whatever writes it. *)

VARIABLES seasons,     \* $$seasons
          seasonIndex  \* $$season-index, by region, format and number

NumberKey(r) == <<r.regionId, r.formatId, r.seasonNum>>

(* rama/README.md:56 "unique (region, format, num)": no two seasons of a region  *)
(* and format have one number, at any moment, however many creates of one   *)
(* id or one number race between the three partitions.                      *)
SeasonNumberUnique ==
  \A i, j \in DOMAIN seasons : NumberKey(seasons[i]) = NumberKey(seasons[j]) => i = j

(* seasons_module.rama: a season's number is claimed in the index before its *)
(* row is written, the claim is for good, and no other season ever gets the  *)
(* number, whether or not the first one's row is there yet.                  *)
Numbers == INSTANCE NameRegistry WITH
  claims <- {[owner |-> seasonIndex[k], name |-> k] : k \in DOMAIN seasonIndex},
  holds  <- {[owner |-> i, name |-> NumberKey(seasons[i])] : i \in DOMAIN seasons}
NumbersAreRegistered == Numbers!LastingSpec
=============================================================================
