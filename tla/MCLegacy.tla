------------------------------ MODULE MCLegacy ------------------------------
(* A small board for LegacyOps, written to by three builds. *)
EXTENDS LegacyOps

Half(x) == [is |-> "half", v |-> x]
Slim(x) == [is |-> "slim", v |-> x]
Text(length, x) == [is |-> length, v |-> x]
Option(x) == [is |-> "option", v |-> x]

\* Tasks "1" and "2", columns "11" and "12"; members, organizations and the
\* addresses of tasks have two halves.
Writings ==
  {Old("CreateTask",
       <<Half("1"), Half("11"), Text("short", "do"), Text("short", "r")>>),
   Old("CreateTask",
       <<Half("2"), Half("11"), Text("eight", "Ship it!"), Text("short", "s")>>),
   Old("SetTaskTitle", <<Half("1"), Text("long", "do it now")>>),
   Old("SetTaskDescription", <<Half("1"), Text("long", "as follows")>>),
   Old("MoveTask", <<Half("1"), Half("12"), Text("short", "s")>>),
   Old("SetTaskAssignee", <<Half("1"), Option("sam")>>),
   Old("DeleteTask", <<Half("2")>>),
   Old("SetOrganization", <<Half("61"), Half("62"), Text("short", "Acme")>>),
   Old("SetMemberName", <<Half("31"), Slim("32"), Text("short", "Sam")>>),
   Current("Place", <<Half("41"), Half("42"), Half("12"), Text("short", "t")>>),
   Current("Unplace", <<Half("41"), Half("42")>>),
   Current("SetOrganization",
           <<Half("63"), Half("64"), Text("eight", "Acme Ltd")>>),
   Current("SetMemberName",
           <<Half("31"), Slim("32"), Text("long", "Samantha S")>>),
   Entry("newer", 8, "SetTheme", <<Text("short", "dark")>>),
   Entry("newer", 13, "Archive", <<Half("71")>>)}

\* What a board is written that has nothing old on it.
Nowadays == {e \in Writings : e.build # "old"}

=============================================================================
