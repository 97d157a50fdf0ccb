------------------------------- MODULE MCValues -------------------------------
(***************************************************************************)
(* Checks the functions that map values to values: the lock decision (see  *)
(* MCLockPolicy), how settings and counters leave the agent and come back  *)
(* (StateFiles), what a parent sees and sends (PanelForms), and what is    *)
(* kept for the next start (Secrets, PanelPassword).  A sample is one      *)
(* input of those: TLC tries the sets of samples, the theorems of          *)
(* FunctionProofs are about all inputs of the sets that contain them.      *)
(***************************************************************************)
EXTENDS MCLockPolicy, StateFiles, PanelForms, Secrets, PanelPassword

VARIABLE sample

-----------------------------------------------------------------------------
(* All inputs *)

AtMostOne(S) == {T \in SUBSET S : \A x, y \in T : x = y}

\* The values of StateFiles: what a parser of JSON can return, as far as it matters.
Json ==
    {<<"absent">>, <<"null">>, <<"empty">>, <<"junk">>}
        \cup ({"bool", "word"} \X BOOLEAN) \cup ({"num", "number"} \X Int)
        \cup ({"time", "instant", "date"} \X Nat) \cup ({"name"} \X (STRING \cup {Me}))

\* What can be in memory: numbers that are within what the files can hold.
WholeNumbers == {n \in Nat : n * 1000 <= MaxWhole}

DailyStates ==
    [bed : TimesOfDay \cup {Unset}, wake : TimesOfDay, allowance : WholeNumbers \cup {Unset}]

RuntimeStates ==
    [ts : Nat, acc : {x \in Nat : x % 1000 = 0 => x <= MaxWhole}, manual : BOOLEAN,
     ext : WholeNumbers]

Memories == [of : {"memory"}, daily : DailyStates, runtime : RuntimeStates]

SettingsFiles == [of : {"file"}, wake_time : Json, bed_time : Json, allowance : Json]

\* The old state file, the installer's settings, and its configuration; each may be
\* missing.
Origins ==
    [of : {"origin"},
     legacy : AtMostOne([wake_time : Json, lock_times : Json \cup ({"list"} \X Json),
                         usage_allowance : Json, accumulated_seconds : Json,
                         manual_lock_active : Json, accumulated_date : Json]),
     daily : AtMostOne([target_user : Json, wake_time : Json, bed_time : Json,
                        allowance : Json]),
     install : AtMostOne([target_user : Json, wake_time : Json]),
     now : Nat]

Controls ==
    [of : {"control"}, now : Nat, bed : TimesOfDay \cup {Unset}, wake : TimesOfDay,
     allowance : Nat \cup {Unset}, acc : Nat, ext : Nat,
     manual : BOOLEAN, exempt : BOOLEAN, locked : BOOLEAN]

AnyClick == Actions \X ({None, <<"empty">>, <<"junk">>} \cup ({"minutes"} \X Int)
                                                       \cup ({"time"} \X Nat))

\* Of the directories an environment may name there is one, as seen from one PC.
AnyAccount ==
    [user : STRING, key : STRING, override : {NoDir, <<"chosen">>}, admin : BOOLEAN]

AnyText == Seq(STRING)

\* What save_secret wrote was long enough.
AnyContent ==
    {NoFile, Damaged}
        \cup ({"encrypted"} \X STRING \X {t \in AnyText : Len(t) >= MinSecretLength})

Directories(x, y) == {Machine, UserDir(x.user), UserDir(y.user), <<"chosen">>}

IsInstallation(s) ==
    /\ s.installer \in AnyAccount /\ s.agent \in AnyAccount
    /\ s.tries \in Seq(AnyText \X AnyText)
    /\ s.disk \in [DOMAIN s.disk -> AnyContent]
    /\ Directories(s.installer, s.agent) \subseteq DOMAIN s.disk

AnyRecord ==
    {NoRecord, Unreadable}
        \cup ({"record"} \X ({NoHash, NotText, OldFormat} \cup ({"hash"} \X AnyText))
                         \X ({<<"none">>, <<"short">>} \cup ({"key"} \X Nat)))

PasswordForms ==
    [of : {"password"}, disk : [{"canonical", "legacy"} -> AnyRecord], loggedIn : BOOLEAN,
     form : [current : AnyText, password : AnyText, confirm : AnyText]]

-----------------------------------------------------------------------------
(* Samples of what the state files hold *)

Instants == 0 .. 2 * MinuteLength * DayLength

MemorySamples ==
    [of : {"memory"},
     daily : [bed : TimesOfDay \cup {Unset}, wake : {1, 3}, allowance : {Unset, 0, 2}],
     runtime : [ts : Instants, acc : {0, 1500}, manual : {TRUE}, ext : {3}]]

Scalars ==
    {<<"absent">>, <<"null">>, <<"empty">>, <<"junk">>, <<"bool", TRUE>>, <<"num", 1000>>,
     <<"num", -1000>>, <<"num", 1500>>, <<"num", MaxWhole + 1000>>, <<"number", 2000>>,
     <<"word", TRUE>>, <<"time", 1>>, <<"time", DayLength>>}

Users == {<<"absent">>, <<"empty">>, <<"name", Me>>, <<"name", "somebody else">>}

\* Of each file nothing is there (or can be read), or one content.
Legacies ==
    {{}} \cup {{x} : x \in
        [wake_time : {<<"absent">>, <<"time", 1>>, <<"junk">>},
         lock_times : {<<"null">>, <<"list", <<"time", 3>>>>, <<"list", <<"instant", 0>>>>},
         usage_allowance : {<<"null">>, <<"num", 2000>>},
         accumulated_seconds : {<<"absent">>, <<"num", 1500>>},
         manual_lock_active : {<<"bool", TRUE>>},
         accumulated_date : {<<"absent">>, <<"junk">>} \cup ({"date"} \X (0 .. 2))]}

ProgramData ==
    {{}} \cup {{x} : x \in [target_user : Users, wake_time : {<<"time", 1>>, <<"junk">>},
                            bed_time : {<<"null">>}, allowance : {<<"num", 2000>>}]}

InstallConfigs ==
    {{}} \cup {{x} : x \in [target_user : Users, wake_time : {<<"absent">>, <<"time", 3>>}]}

OriginSamples ==
    [of : {"origin"}, legacy : Legacies, daily : ProgramData, install : InstallConfigs,
     now : {MinuteLength * DayLength, MinuteLength * (DayLength + 2)}]

FileSamples ==
    [of : {"file"}, wake_time : Scalars, bed_time : Scalars, allowance : Scalars]

-----------------------------------------------------------------------------
(* Samples of an agent whose page is shown, and the clicks on it *)

ControlSamples ==
    [of : {"control"}, now : 0 .. MinuteSeconds * (DayLength + 1), bed : {Unset, 1, 3},
     wake : {1, 3}, allowance : {Unset, 0, 2}, acc : {0, 1, 3, 5}, ext : {0, MinuteSeconds},
     manual : BOOLEAN, exempt : BOOLEAN, locked : BOOLEAN]

Clicks ==
    Actions \X {None, <<"empty">>, <<"junk">>, Minutes(0), Minutes(1), Minutes(MaxDailyLimit + 1),
               ClockTime(0), ClockTime(3), ClockTime(DayLength)}

Page(c) == SettingsToPCInfo(ReadVariables(c))

\* The page of an agent too old to tell of enforcement.
LegacyPage(c) ==
    LET told == ReadVariables(c)
        known == DOMAIN told \ {"enforcement_active", "enforcement_reason", "access_status"}
    IN  SettingsToPCInfo([v \in known |-> told[v]])

-----------------------------------------------------------------------------
(* Samples of a PC on which the installer is run.  Without an administrator's  *)
(* rights only one's own directory can be written; everybody reads the machine's. *)

Accounts ==
    [user : {"parent", "child"}, key : {"built in", "chosen"},
     override : {NoDir, <<"chosen">>}, admin : BOOLEAN]

Account(x) ==
    [user |-> x.user, key |-> x.key, override |-> x.override,
     reads |-> {Machine, UserDir(x.user), <<"chosen">>},
     writes |-> {UserDir(x.user)} \cup IF x.admin THEN {Machine, <<"chosen">>} ELSE {}]

Contents == {NoFile, Damaged} \cup {Encrypted(k, <<"o", "l", "d">>) : k \in {"built in", "chosen"}}

SecretSamples ==
    [of : {"secret"}, installer : Accounts, agent : Accounts,
     disk : [{Machine, UserDir("parent"), UserDir("child"), <<"chosen">>} -> Contents],
     tries : {<<>>, <<<<<<"n">>, <<"n">>>>, <<<<"n", "e", "w">>, <<"n", "e", "w">>>>>>,
              <<<<<<"n", "e", "w">>, <<"n", "o", "w">>>>>>}]

-----------------------------------------------------------------------------
(* Samples of the panel's password file, and of a form that is filled in *)

Old == <<"o", "l", "d">>
New == <<"n", "e", "w">>
Keys == {<<"none">>, <<"short">>, <<"key", 1>>}

Records ==
    {NoRecord, Unreadable}
        \cup ({"record"} \X {HashOf(Old), NoHash, NotText, OldFormat} \X Keys)

PasswordSamples ==
    [of : {"password"}, disk : [{"canonical", "legacy"} -> Records], loggedIn : BOOLEAN,
     form : [current : {<<>>, Old, New}, password : {<<"n">>, New}, confirm : {New}]]

-----------------------------------------------------------------------------

\* What TLC tries is part of what the theorems are about.
ASSUME SamplesAssumption ==
    /\ MemorySamples \subseteq Memories /\ FileSamples \subseteq SettingsFiles
    /\ OriginSamples \subseteq Origins
    /\ ControlSamples \subseteq Controls /\ Clicks \subseteq AnyClick
    /\ \A s \in SecretSamples : IsInstallation(s)
    /\ PasswordSamples \subseteq PasswordForms

-----------------------------------------------------------------------------
(* Properties *)

\* Settings and counters come back from the files as they were saved (the
\* timestamp cut to the second, which leaves it in its usage period whatever the
\* wake time), and whatever settings a file may be edited to hold, once they
\* are accepted they are saved and accepted again as the same.
WhatIsSavedIsLoaded ==
    /\ sample.of = "memory" =>
          /\ LoadDailyFromDict(DailyToDict(sample.daily)) = {sample.daily}
          /\ \E r \in LoadRuntimeFromDict(RuntimeToDict(sample.runtime)) :
                /\ LoadRuntimeFromDict(RuntimeToDict(sample.runtime)) = {r}
                /\ \A wake \in TimesOfDay :
                      Period(r.ts, wake) = Period(sample.runtime.ts, wake)
                /\ [r EXCEPT !.ts = 0] = [sample.runtime EXCEPT !.ts = 0]
    /\ sample.of = "file" =>
          \A d \in LoadDailyFromDict(sample) :
              /\ LoadDailyFromDict(DailyToDict(d)) = {d}
              /\ d.wake \in TimesOfDay /\ d.bed \in TimesOfDay \cup {Unset}
              /\ d.allowance # Unset => d.allowance >= 0

\* An agent that starts without settings of its own takes no settings that were
\* written for another user of the PC, no usage or manual lock of an earlier
\* usage period, and always ends up with some settings.
NothingForeignIsTaken ==
    sample.of = "origin" =>
        LET derived == DeriveDaily(sample.legacy, sample.daily, sample.install, sample.now)
            own == [sample EXCEPT !.daily = {x \in @ : ~ForAnother(x)},
                                  !.install = {x \in @ : ~ForAnother(x)}]
        IN  /\ derived # {}
            /\ derived = DeriveDaily(own.legacy, own.daily, own.install, own.now)
            /\ \A e \in derived : e[2].acc > 0 \/ e[2].manual =>
                  \A x \in sample.legacy : x.accumulated_date[1] = "date" =>
                      x.accumulated_date[2] >= Period(sample.now, e[1].wake)

\* The page shown of the agent c is right: limit, time left and status.
PageIsRight(c) ==
    LET left == AtSeconds!MinutesUntilLock(DecisionInputs(c))
        shown == Page(c).time_remaining
    IN  /\ Page(c).effective_limit = DecisionInputs(c).allowance
        /\ IF left = Unset THEN shown = None
           ELSE 2 * (shown[2] * MinuteSeconds - left) \in -MinuteSeconds .. MinuteSeconds
        /\ ~c.exempt => (AtSeconds!ShouldLock(DecisionInputs(c))
                           <=> Page(c).access_status \notin {"screen_locked", "unlocked"})
        /\ ~ReadVariables(c).enforcement_active =>
              LegacyPage(c).access_status = Page(c).access_status

\* The agents that a click on the page of c can lead to.
Clicked(c, click) ==
    UNION {Dispatch(c, r) : r \in ActionRequestFields(click[1], click[2])}

PageTells(c, click) ==
    /\ \A d \in Clicked(c, click) : PageIsRight(d)
    /\ click[1] = "extend_time" => \A d \in Clicked(c, click) :
          /\ Page(d).effective_limit
               = click[2][2] * MinuteSeconds
                 + IF Page(c).effective_limit = Unset THEN 0 ELSE Page(c).effective_limit
          /\ ~d.manual

\* The page of a PC tells what its agent enforces, before and after every click that
\* the agent answers: the limit the panel works out is the one that counts, a PC
\* that is to be locked has nothing left and is said to be locked, the time left is
\* off by no more than rounding; an old agent's page says the same as long as no
\* schedule or limit is enforced.  More time is added to what was there.
PageTellsWhatIsInForce ==
    sample.of = "control" =>
        PageIsRight(sample) /\ \A click \in Clicks : PageTells(sample, click)

\* Once the installer has stored a secret, the account that ran it and, when that was an
\* administrator, every other account in the same environment find exactly that
\* one, whatever older copies lie where; and after it is deleted by an
\* administrator nobody finds what was in the machine's directory.
AgentFindsTheSecret ==
    sample.of = "secret" =>
        LET installer == Account(sample.installer)
            agent == Account(sample.agent)
            alike == agent.key = installer.key /\ agent.override = installer.override
        IN  /\ \A stored \in PromptAndStoreSharedSecret(installer, sample.disk, sample.tries) :
                  /\ LoadSecret(installer, stored.disk) = {stored.secret}
                  /\ alike /\ sample.installer.admin =>
                        LoadSecret(agent, stored.disk) = {stored.secret}
                  /\ Len(stored.secret) >= MinSecretLength
            /\ sample.installer.admin =>
                  Machine \notin FindSecretPath(agent, DeleteSecret(installer, sample.disk))
                      \/ installer.override # NoDir

\* A password that was set is the one that is asked for from then on, by a panel
\* whose sessions go on; a file that cannot be used, or only a part of which was
\* written, is never taken for a panel without a password, whatever an older
\* panel left; and who gave no right current password changes nothing.
PasswordIsKept ==
    sample.of = "password" =>
        LET disk == sample.disk
            canonical == disk["canonical"]
        IN  /\ canonical = Unreadable => Answer(disk, sample.loggedIn) = "locked"
            /\ \A r \in SetPassword(disk, sample.loggedIn, sample.form, <<"key", 2>>) :
                  /\ r.ok => /\ \A p \in {Old, New} :
                                   VerifyPassword(r.disk, p) <=> p = sample.form.password
                             /\ PanelSecretKey(disk) # {} => PanelSecretKey(r.disk) = PanelSecretKey(disk)
                             /\ Answer(r.disk, FALSE) = "login"
                  /\ ~r.ok => r.disk = disk \/ Answer(r.disk, FALSE) = "locked"
                  /\ PasswordIsConfigured(disk) /\ r.disk # disk =>
                        sample.loggedIn /\ VerifyPassword(disk, sample.form.current)
=============================================================================
