------------------------------- MODULE MCFleet -------------------------------
(***************************************************************************)
(* A small instance of Fleet: a dedicated server and cloud servers, with   *)
(* names as they are made by hand, at and beyond the ends of the ranges. *)
(***************************************************************************)
EXTENDS Fleet, TLC

CONSTANTS d1, c1, c2

MCFirstName == [d \in Dedicated |-> [starts |-> "jukebox", token |-> 0, rest |-> 1]]
MCFirstRegion == [d \in Dedicated |-> "us-west-hil"]
MCFirstFlavor == [d \in Dedicated |-> [range |-> "rise-3", case |-> "upper"]]

NameOf(service, token) == [starts |-> service, token |-> token, rest |-> 1]

(* jukebox0-us-east-1-dev, test1-..., appstor0-..., jukebox-us-east-1; the *)
(* first index in the storage servers' range, the last with an address and *)
(* the first without.                                                    *)
MCHandName ==
  {NameOf("jukebox", 0), NameOf("other", 1), NameOf("appstor", 0), NameOf("jukebox", NoIndex),
   NameOf("jukebox", 198), NameOf("jukebox", 253), NameOf("jukebox", 254)}

MCHandFlavor == {[range |-> "d2-2", case |-> "lower"]}

Clouds == Permutations({c1, c2})
=============================================================================
