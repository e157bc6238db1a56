--------------------------- MODULE GdprRegistryMC ---------------------------
(* GdprRegistry for TLC: the Hub, one model that refers to it, one model   *)
(* that refers to the account, and a name that the schema does not have.   *)
EXTENDS GdprRegistry, TLC

CONSTANTS profile, channel, data, ghost

Models == {profile, channel, data}
Columns == (channel :> "notificationProfileId") @@ [m \in {profile, data} |-> "identityId"]

Unlisted == [included |-> FALSE, excluded |-> FALSE, entry |-> FALSE,
             userField |-> "identityId", immediate |-> FALSE, override |-> "none"]

(* Every listing that contradicts nothing in itself.                       *)
Sensible(field) ==
  {[Unlisted EXCEPT !.included = TRUE, !.entry = TRUE, !.userField = field,
                    !.immediate = i, !.override = o] :
     i \in BOOLEAN, o \in {"none", "some"}}
  \cup {Unlisted, [Unlisted EXCEPT !.excluded = TRUE]}

(* The mistakes the check is there for, and two it does not see.           *)
Mistaken(field, wrong) ==
  LET entry == [Unlisted EXCEPT !.included = TRUE, !.entry = TRUE, !.userField = field] IN
  {[entry EXCEPT !.userField = w] : w \in wrong}
  \cup {[entry EXCEPT !.excluded = TRUE], [entry EXCEPT !.included = FALSE],
        [entry EXCEPT !.entry = FALSE], [entry EXCEPT !.override = "empty"],
        [Unlisted EXCEPT !.override = "some"]}

Offers ==
  [n \in Models \cup {ghost} |->
     CASE n = channel -> Sensible("notificationProfileId")
                           \cup Mistaken("notificationProfileId", {"identityId", "other"})
       [] n = ghost -> {Unlisted, [Unlisted EXCEPT !.included = TRUE],
                        [Unlisted EXCEPT !.excluded = TRUE],
                        [Unlisted EXCEPT !.included = TRUE, !.entry = TRUE]}
       [] OTHER -> Sensible("identityId")
                     \cup Mistaken("identityId", {"notificationProfileId"})]
=============================================================================
