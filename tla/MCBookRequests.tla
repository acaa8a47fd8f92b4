--------------------------- MODULE MCBookRequests ---------------------------
(* Two volunteers and an admin, with tokens, with plain headers and with both. *)
EXTENDS BookRequests, TLC

CONSTANTS c1, c2, c3, c4, anna, ben, radha, nobody, gita, bhagavatam

MCLower == [r \in {"admin", "Admin", "volunteer", "authenticated"} |->
              IF r = "Admin" THEN "admin" ELSE r]

Token(name, role, signed) == [name |-> name, role |-> role, signed |-> signed]
Bearing(t) == [secret |-> "none", token |-> t, user |-> nobody, role |-> nobody]
Plain(user, role) == [secret |-> "none", token |-> nobody, user |-> user, role |-> role]

Anna == Bearing(Token(anna, "volunteer", TRUE))
Radha == Bearing(Token(radha, "Admin", TRUE))
Headers == {Anna, Radha, Plain(ben, "volunteer"), Plain(anna, nobody), Plain(nobody, "admin"),
            Bearing(Token(anna, "authenticated", TRUE)), Bearing(Token(nobody, "admin", TRUE)),
            [Bearing(Token(radha, "Admin", FALSE)) EXCEPT !.user = radha, !.role = "admin"],
            [Anna EXCEPT !.user = radha, !.role = "admin"],
            [Radha EXCEPT !.secret = "right"], [Radha EXCEPT !.secret = "wrong"]}

Create_(h, book, priority, ok) ==
    [op |-> "create", headers |-> h, book |-> book, priority |-> priority, wellFormed |-> ok]
List(op, h, limit, ok) == [op |-> op, headers |-> h, limit |-> limit, wellFormed |-> ok]
Approve_(h, id) == [op |-> "approve", headers |-> h, id |-> id, wellFormed |-> TRUE]

\* Of the tokens only anna's expires.
MCLasting == {h.token : h \in Headers \ {Anna}}

MCTraffic ==
    c1 :> {Create_(Anna, bhagavatam, "important", TRUE), Create_(Anna, gita, "whenever", TRUE),
           Create_(Anna, gita, "important", FALSE), Create_(Anna, gita, "important", TRUE),
           Create_([Radha EXCEPT !.secret = "right"], gita, "important", TRUE),
           Create_(Plain(anna, nobody), gita, "important", TRUE)}
    @@ c2 :> {Create_(Anna, gita, "immediate", TRUE), Create_(Plain(ben, "volunteer"), gita, "cant_wait", TRUE)}
    @@ c3 :> {List("mine", Anna, 1, TRUE), List("mine", Plain(ben, "volunteer"), 2, TRUE),
              List("history", Radha, 1, TRUE), List("history", Anna, 1, TRUE), List("mine", Anna, 0, FALSE)}
    @@ c4 :> ({Approve_(h, 1) : h \in Headers} \cup {Approve_(Radha, 3)})
=============================================================================
