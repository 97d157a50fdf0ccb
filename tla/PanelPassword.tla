---------------------------- MODULE PanelPassword ----------------------------
(***************************************************************************)
(* The password of the panel's pages (web_panel.py): where its file is, what *)
(* of it is usable, and what setting another one leaves.                   *)
(*                                                                         *)
(* disk gives what is in the file of the user's configuration directory     *)
(* ("canonical") and in the one an older panel left ("legacy"): NoRecord,   *)
(* Unreadable (a stat or read that fails, no JSON, no object), or a record   *)
(* <<"record", hash, key>>, in which either may be missing.                *)
(***************************************************************************)
EXTENDS Naturals, Sequences

CONSTANT MinPasswordLength

ASSUME PasswordAssumption == MinPasswordLength \in Nat

NoRecord == <<"no file">>
Unreadable == <<"unreadable">>

\* What a record has as hash: that of a password, nothing, what is no text, or a
\* hash and salt of their own, as the panel once wrote them.
HashOf(password) == <<"hash", password>>
NoHash == <<"none">>
NotText == <<"not text">>
OldFormat == <<"hash and salt">>

\* Mutant: a file that cannot be used does not count.
AuthPathOfUsable(disk) ==
    IF disk["canonical"][1] = "record" \/ disk["legacy"] = NoRecord THEN "canonical"
    ELSE "legacy"

\* _may_exist: only what is certainly not there does not count.
AuthPath(disk) ==
    IF disk["canonical"] # NoRecord \/ disk["legacy"] = NoRecord THEN "canonical"
    ELSE "legacy"

AuthFileProblem(disk) ==
    LET content == disk[AuthPath(disk)]
    IN  \/ content = Unreadable
        \/ content[1] = "record" /\ content[2] \in {NotText, OldFormat}

\* load_auth_record: the record, as a set with at most one element.
LoadAuthRecord(disk) ==
    {content \in {disk[AuthPath(disk)]} : content[1] = "record" /\ ~AuthFileProblem(disk)}

StoredPasswordHash(disk) == {r[2] : r \in LoadAuthRecord(disk)} \ {NoHash}
PasswordIsConfigured(disk) == StoredPasswordHash(disk) # {}
VerifyPassword(disk, password) == HashOf(password) \in StoredPasswordHash(disk)

\* The key sessions are signed with, if it is a text long enough.
PanelSecretKey(disk) == {r[3] : r \in {r \in LoadAuthRecord(disk) : r[3][1] = "key"}}

\* save_password: the key is kept, or else made; the file is written in place: if it
\* cannot be opened all stays as it was, if the write fails or the panel dies a part
\* of it is left.
SavePassword(disk, password, fresh) ==
    IF AuthFileProblem(disk) THEN {[ok |-> FALSE, disk |-> disk]}
    ELSE LET keys == IF PanelSecretKey(disk) = {} THEN {fresh} ELSE PanelSecretKey(disk)
             put(content) == [disk EXCEPT !["canonical"] = content]
         IN  {[ok |-> TRUE, disk |-> put(<<"record", HashOf(password), k>>)] : k \in keys}
                \cup {[ok |-> FALSE, disk |-> disk], [ok |-> FALSE, disk |-> put(Unreadable)]}

\* What a page is answered with: nothing is shown while the file cannot be used.
Answer(disk, loggedIn) ==
    IF AuthFileProblem(disk) THEN "locked"
    ELSE IF PasswordIsConfigured(disk) /\ ~loggedIn THEN "login"
    ELSE "page"

\* set_password, for a form [current, password, confirm].
SetPassword(disk, loggedIn, form, fresh) ==
    IF /\ Answer(disk, loggedIn) = "page"
       /\ PasswordIsConfigured(disk) => VerifyPassword(disk, form.current)
       /\ Len(form.password) >= MinPasswordLength
       /\ form.password = form.confirm
    THEN SavePassword(disk, form.password, fresh)
    ELSE {[ok |-> FALSE, disk |-> disk]}
=============================================================================
