------------------------------- MODULE Secrets -------------------------------
(***************************************************************************)
(* Where the shared secret of panel and agents is kept on a PC             *)
(* (secrets_store.py, shared_secret.py): the installer, run by one account, *)
(* stores it, and an agent or panel run by another has to find it.         *)
(*                                                                         *)
(* An account is [user, key, override, reads, writes]: the encryption key  *)
(* and the directory that its environment may name, and the directories in *)
(* which it may read and write.  A directory is "machine", <<"user", u>> or *)
(* one an environment names.  disk gives what is in each: the secret       *)
(* encrypted with a key, as [key, secret], Damaged or NoFile.              *)
(***************************************************************************)
EXTENDS Naturals, Sequences

CONSTANT MinSecretLength    \* MIN_SECRET_LENGTH

ASSUME SecretsAssumption == MinSecretLength \in Nat

Machine == <<"machine">>
UserDir(user) == <<"user", user>>
NoDir == <<"none">>

NoFile == <<"no file">>
Damaged == <<"damaged">>
Encrypted(key, secret) == <<"encrypted", key, secret>>

\* Mutant: one's own directory comes first.
SecretsDirsOwnFirst(a) ==
    IF a.override # NoDir THEN <<a.override>> ELSE <<UserDir(a.user), Machine>>

\* secrets_dirs: the override alone, or the machine's before one's own.
SecretsDirs(a) ==
    IF a.override # NoDir THEN <<a.override>> ELSE <<Machine, UserDir(a.user)>>

\* The first of the directories that is among those given, as a set.
FirstDir(a, given) ==
    LET dirs == SecretsDirs(a)
    IN  {dirs[k] : k \in {k \in DOMAIN dirs : /\ dirs[k] \in given
                                              /\ \A j \in 1 .. k - 1 : dirs[j] \notin given}}

Decryptable(a, content) == content[1] = "encrypted" /\ content[2] = a.key

\* save_secret: written to the first directory that can be; {} if none can.
SaveSecret(a, disk, secret) ==
    {[disk |-> [disk EXCEPT ![d] = Encrypted(a.key, secret)], path |-> d] :
        d \in FirstDir(a, a.writes)}

FindSecretPath(a, disk) ==
    FirstDir(a, {d \in a.reads \cap DOMAIN disk : Decryptable(a, disk[d])})

LoadSecret(a, disk) == {disk[d][3] : d \in FindSecretPath(a, disk)}

\* delete_secret: from every directory that allows it.
DeleteSecret(a, disk) ==
    LET dirs == {SecretsDirs(a)[k] : k \in DOMAIN SecretsDirs(a)}
    IN  [d \in DOMAIN disk |-> IF d \in dirs \cap a.writes THEN NoFile ELSE disk[d]]

\* prompt_for_shared_secret: tries is what the parent types, pairs of a secret and
\* its confirmation, until one is good; {} when the parent gives up.
PromptForSharedSecret(tries) ==
    LET good == {k \in DOMAIN tries : /\ Len(tries[k][1]) >= MinSecretLength
                                      /\ tries[k][1] = tries[k][2]}
    IN  {tries[k][1] : k \in {k \in good : \A j \in good : k <= j}}

\* prompt_and_store_shared_secret: a secret that is found is kept, and saved again
\* where everybody may find it.
PromptAndStoreSharedSecret(a, disk, tries) ==
    LET found == LoadSecret(a, disk)
        secret == IF found # {} THEN found ELSE PromptForSharedSecret(tries)
    IN  UNION {{[disk |-> saved.disk, secret |-> s] : saved \in SaveSecret(a, disk, s)} :
                  s \in secret}
=============================================================================
