----------------------------- MODULE MakerChecker -----------------------------
(***************************************************************************)
(* What the maker-checker desks promise: a document is open to changes     *)
(* until it is submitted, somebody else checks what was submitted, a third *)
(* person approves what was checked, and what is approved stays as it is.  *)
(***************************************************************************)
CONSTANTS Documents, Staff, Contents, Nobody, Nothing

VARIABLE file  \* document -> its stage, content, maker and checker

Unopened == [stage |-> "unopened", content |-> Nothing, maker |-> Nobody,
             checker |-> Nobody]

Init == file = [d \in Documents |-> Unopened]

Becomes(d, stage, content, maker, checker) ==
    file' = [file EXCEPT ![d] = [stage |-> stage, content |-> content,
                                 maker |-> maker, checker |-> checker]]

Open(d, p, c) == file[d] = Unopened /\ Becomes(d, "open", c, p, Nobody)

Edit(d, c) ==
    file[d].stage = "open" /\ Becomes(d, "open", c, file[d].maker, Nobody)

Submit(d) ==
    /\ file[d].stage = "open"
    /\ Becomes(d, "submitted", file[d].content, file[d].maker, Nobody)

Check(d, p) ==
    /\ file[d].stage = "submitted" /\ p # file[d].maker
    /\ Becomes(d, "checked", file[d].content, file[d].maker, p)

Return(d) ==
    /\ file[d].stage \in {"submitted", "checked"}
    /\ Becomes(d, "open", file[d].content, file[d].maker, Nobody)

Approve(d, p) ==
    /\ file[d].stage = "checked" /\ p \notin {file[d].maker, file[d].checker}
    /\ Becomes(d, "approved", file[d].content, file[d].maker, file[d].checker)

Next == \E d \in Documents :
    \/ Submit(d) \/ Return(d)
    \/ \E c \in Contents : Edit(d, c) \/ \E p \in Staff : Open(d, p, c)
    \/ \E p \in Staff : Check(d, p) \/ Approve(d, p)

Spec == Init /\ [][Next]_file
=============================================================================
