-------------------------- MODULE PreferenceFaces --------------------------
(***************************************************************************)
(* A preference document on its way in and out of the component: the REST  *)
(* face takes channel names as strings, the gRPC face as numbers of an     *)
(* enumeration, and the two differ in what an absent list becomes.         *)
(*                                                                         *)
(* As everywhere, a list says how often it names each channel.             *)
(***************************************************************************)
EXTENDS PreferenceRules

CONSTANT Null \* a nil list: absent in JSON, NULL to the table

Face == {"http", "grpc"}

\* What a list may name; "OTHER" is any string that is no channel, and
\* CHANNEL_UNSPECIFIED any number that is none.
Name(face) ==
    IF face = "http"
    THEN Channel \cup {"OTHER"}
    ELSE {"CHANNEL_UNSPECIFIED", "CHANNEL_IM", "CHANNEL_EMAIL", "CHANNEL_SMS"}

\* Seeded fault: SMS was forgotten when it was added.
ToProtoChannelOld(c) ==
    CASE c = "IM"    -> "CHANNEL_IM"
      [] c = "EMAIL" -> "CHANNEL_EMAIL"
      [] OTHER       -> "CHANNEL_UNSPECIFIED"

ToProtoChannel(c) ==
    CASE c = "IM"    -> "CHANNEL_IM"
      [] c = "EMAIL" -> "CHANNEL_EMAIL"
      [] c = "SMS"   -> "CHANNEL_SMS"
      [] OTHER       -> "CHANNEL_UNSPECIFIED"

FromProtoChannel(name) ==
    CASE name = "CHANNEL_IM"    -> "IM"
      [] name = "CHANNEL_EMAIL" -> "EMAIL"
      [] name = "CHANNEL_SMS"   -> "SMS"
      [] OTHER                  -> ""

Parsed(face, name) == IF face = "grpc" THEN FromProtoChannel(name) ELSE name

Printed(face, c) == IF face = "grpc" THEN ToProtoChannel(c) ELSE c

WireList(face) == [Name(face) -> 0 .. MaxCopies]

ASSUME NullAssumption ==
    Null \notin ChannelList \cup WireList("http") \cup WireList("grpc")

\* validateChannels.
Valid(face, list) ==
    list # Null =>
       \A name \in Name(face) : list[name] > 0 => Parsed(face, name) \in Channel

\* The list that reaches the repository; a nil list stays nil.
Received(face, list) ==
    IF list = Null THEN Null
    ELSE [c \in Channel |-> list[CHOOSE name \in Name(face) : Parsed(face, name) = c]]

\* The gRPC handler makes an empty list where JSON leaves a nil one.
ReceivedGlobal(face, list) ==
    IF face = "grpc" /\ list = Null THEN NoChannels ELSE Received(face, list)

\* The list as it is answered.
Answered(face, list) ==
    [name \in Name(face) |->
        IF \E c \in Channel : Printed(face, c) = name
        THEN list[CHOOSE c \in Channel : Printed(face, c) = name]
        ELSE 0]
============================================================================
