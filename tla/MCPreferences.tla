--------------------------- MODULE MCPreferences ---------------------------
(* Instances of Preferences for TLC. *)
EXTENDS Preferences

\* The list of a request that names each of the given names once.
Of(face, names) == [n \in Name(face) |-> IF n \in names THEN 1 ELSE 0]

Follows(face, global) ==
    [face |-> face, global |-> global, categories |-> [c \in {} |-> Null]]

Sets(face, global, cat, list) ==
    [face |-> face, global |-> global, categories |-> [c \in {cat} |-> list]]

\* What gets through, over either face.  The second switches everything off
\* but for the critical category, which then has nothing left.
Good ==
    {Sets("http", Of("http", {"EMAIL"}), "other", Of("http", {"IM"})),
     Sets("grpc", Null, Critical, Of("grpc", {"CHANNEL_IM", "CHANNEL_SMS"}))}

\* What is refused at one point or another: a nil list beside the name of the
\* global layer, an unknown channel, a silenced category.
Bad ==
    {[face |-> "http", global |-> Of("http", {"IM"}),
      categories |-> [c \in {Global, "other"} |->
                        IF c = Global THEN Of("http", {"EMAIL"}) ELSE Null]],
     Follows("grpc", Of("grpc", {"CHANNEL_UNSPECIFIED"})),
     Sets("http", Of("http", {"IM"}), Critical, Of("http", {}))}

MixedRequests == Good \cup Bad
=============================================================================
