----------------------------- MODULE MCDelivery -----------------------------
(* Instances of Delivery for TLC. *)
EXTENDS DeliveryPromise

List(im, email, sms) ==
    [c \in Channel |-> CASE c = "IM" -> im [] c = "EMAIL" -> email [] c = "SMS" -> sms]

Stored(list) == [set |-> TRUE, channels |-> list]

\* Nothing set; everything switched off; a category outside the ceiling.
SilentDocuments ==
    {[global |-> Unset, category |-> Unset],
     [global |-> Stored(List(0, 0, 0)), category |-> Unset],
     [global |-> Stored(List(0, 1, 0)), category |-> Stored(List(1, 0, 0))]}

\* Several channels, one of them named twice.
BroadDocuments ==
    {[global |-> Stored(List(2, 1, 0)), category |-> Unset],
     [global |-> Stored(List(1, 1, 1)), category |-> Stored(List(0, 1, 1))]}

NoDocuments == {}

AllDocuments == SilentDocuments \cup BroadDocuments

OneAssignee == [t \in Task |-> CHOOSE u \in User : TRUE]
=============================================================================
