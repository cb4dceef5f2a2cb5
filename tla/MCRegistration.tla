---------------------------- MODULE MCRegistration ----------------------------
(***************************************************************************)
(* Small instances of Registration for TLC.                                *)
(***************************************************************************)
EXTENDS Registration

CONSTANTS e1, e2

Password(visible, blanks) == [visible |-> visible, blanks |-> blanks]

\* A form of address e with password p, confirmed, complete and with a picture.
GoodForm(e, p) ==
    [email |-> e, at |-> TRUE, password |-> p, confirm |-> p,
     complete |-> TRUE, picture |-> TRUE]

\* Good forms with and without blanks, and one form for each thing that goes wrong:
\* no @, an unconfirmed, a four- and a five-character password, only blanks, a
\* missing field, no picture.
ManyForms ==
    {GoodForm(e1, Password(6, 0)), GoodForm(e2, Password(6, 0)),
     GoodForm(e2, Password(6, 1)),
     [GoodForm(e2, Password(6, 0)) EXCEPT !.at = FALSE],
     [GoodForm(e2, Password(6, 0)) EXCEPT !.confirm = Password(6, 1)],
     GoodForm(e2, Password(4, 0)), GoodForm(e2, Password(5, 0)),
     GoodForm(e2, Password(0, 5)),
     [GoodForm(e2, Password(6, 0)) EXCEPT !.complete = FALSE],
     [GoodForm(e2, Password(6, 0)) EXCEPT !.picture = FALSE]}

=============================================================================
