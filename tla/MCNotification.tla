--------------------------- MODULE MCNotification ---------------------------
(* An instance of Notification for TLC. *)
EXTENDS Notification, TLC

Symmetry == Permutations(Client)

\* The directory knows the phone first, then only the e-mail address.
TwoProfiles == {[phone |-> "p", email |-> ""], [phone |-> "", email |-> "e"]}

Names2(names) == [n \in Channel \cup {"OTHER"} |-> IF n \in names THEN 1 ELSE 0]

Http(global, cats) == [face |-> "http", global |-> Names2(global), categories |-> cats]

\* E-mail first; then IM alone, with a category that still wants e-mail and
\* SMS.
TwoRequests ==
    {Http({"EMAIL"}, [c \in {} |-> Null]),
     Http({"IM"}, [c \in {"workflow_task"} |-> Names2({"EMAIL", "SMS"})])}
=============================================================================
