----------------------------- MODULE MCReplicas -----------------------------
(* Small histories of one contract for ContractReplicas.                   *)
EXTENDS ContractReplicas

CONSTANTS owner, founder, ann, mel, phone, p1, p2, p3

Op(key, kind, author, target, rights) ==
  [key |-> key, scope |-> "here", kind |-> kind, author |-> author,
   target |-> target, rights |-> rights, signed |-> TRUE, legible |-> TRUE]

Grant(key, author, member, rights) == Op(key, "GRANT", author, member, rights)
Write(key, author) == Op(key, "APPLICATION", author, author, {WRITE_TASKS})

WT == {WRITE_TASKS}

\* A task under an organization.  The founder's certificate, signed for the
\* organization's scope, lets mel write here, and her first write carries it
\* along as the web client does; mel links a phone, which writes; the owner
\* removes mel.  mel also writes something for the organization's contract,
\* which does not belong here.
certificate == [Grant(1, founder, mel, WT) EXCEPT !.scope = "org"]
edit == Write(2, mel)
link == Op(3, "LINK_DEVICE", mel, phone, NONE)
call == Write(4, phone)
remove == Grant(5, owner, mel, NONE)
elsewhere == [Write(6, mel) EXCEPT !.scope = "org"]

TaskBatches == {{certificate, edit}, {link}, {call}, {remove}, {elsewhere}}

\* A copy of the edit that does not verify, beside a genuine certificate, and
\* a certificate from some other organization.
TaskForged == {{[edit EXCEPT !.signed = FALSE], certificate},
                {[certificate EXCEPT !.key = 7, !.scope = "other"]}}

\* A board: its owner admits ann, who writes and is removed; a grant
\* that does not decode confers nothing.
admit == Grant(1, owner, ann, WT)
write == Write(2, ann)
dismiss == Grant(3, owner, ann, NONE)
garbled == [Grant(4, owner, mel, WT) EXCEPT !.legible = FALSE]

BoardBatches == {{admit, write}, {dismiss}, {garbled}, {Write(5, mel)}}

\* A board with an admin: the owner makes ann an admin and later unmakes it;
\* meanwhile, with a higher clock, ann admits mel and mel writes.
appoint == Grant(1, owner, ann, WT \cup {MAY_GRANT})
unmake == Grant(2, owner, ann, NONE)
bring == Grant(3, ann, mel, WT)
work == Write(4, mel)

AdminBatches == {{appoint}, {unmake}, {bring}, {work}}

NoForgery == {}
NoOrg == {}
Founder == {founder}
Org == {"org"}

=============================================================================
