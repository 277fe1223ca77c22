----------------------------- MODULE MCListing -----------------------------
(* Instances of Listing for TLC. *)
EXTENDS Listing, TLC

CONSTANTS u1, u2

Ask(face, recipient, status, page_size, cursor) ==
    [face |-> face, caller |-> u1, recipient |-> recipient, category |-> "",
     status |-> status, page_size |-> page_size, cursor |-> cursor]

\* One request for each face and each way a page size and a filter may come:
\* one row, two, none given, more than the limit, and a number that wraps.
Requests ==
    {Ask("mine", u2, "", 1, ""),
     Ask("admin", "", "", IntRange + 1, ""),
     Ask("admin", u2, "RETRYING", MaxPageSize + 1, ""),
     Ask("grpc", "", "RECORD_STATUS_RETRYING", 1, ""),
     Ask("grpc", "", Unspecified, 2, ""),
     Ask("grpc", "", Unspecified, 1, "malformed"),
     [Ask("admin", "", "", 0, "") EXCEPT !.category = "other"]}

WriterSymmetry == Permutations(Writer)
=============================================================================
