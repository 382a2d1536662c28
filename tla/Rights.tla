------------------------------- MODULE Rights -------------------------------
(***************************************************************************)
(* The permission bitset of pj-core/src/rights.rs.  A `Rights` value is    *)
(* the set of the bits that are set: contains is superset, union, intersect*)
(* and without are the set operations.  ALL is every bit, the ones no      *)
(* constant names included, which is what "Other" stands for.              *)
(***************************************************************************)

\* Vouch for or cut back another key; held by admins.
MAY_GRANT == "MAY_GRANT"

\* Make and unmake admins; held by the roots of trust, grantable by them.
MAY_APPOINT == "MAY_APPOINT"

WRITE_TASKS == "WRITE_TASKS"
WRITE_COLUMNS == "WRITE_COLUMNS"
LINK_TASKS == "LINK_TASKS"
ADMINISTER == "ADMINISTER"
SET_NAME == "SET_NAME"

NONE == {}
MEMBER == {WRITE_TASKS, WRITE_COLUMNS, LINK_TASKS, SET_NAME}
ADMIN == MEMBER \cup {MAY_GRANT, ADMINISTER}
ALL == ADMIN \cup {MAY_APPOINT, "Other"}

=============================================================================
