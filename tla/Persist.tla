-------------------------------- MODULE Persist --------------------------------
(***************************************************************************)
(* How the Activities that are created under one name are stored in db8:   *)
(* the persist commands hooked to them and their chains, which may cross   *)
(* Activities when one replaces another (PersistCommand.cpp,               *)
(* MojoPersistCommand.cpp, MojoDBPersistCommand.cpp, ActivityCategory.     *)
(* cpp), the tokens that stand for a record (MojoDBPersistToken.cpp), and  *)
(* what is left after a crash and loaded again (MojoDBProxy.cpp).          *)
(*                                                                         *)
(* An Activity is reduced to what the commands depend on. Its subscribers  *)
(* leave, and it is released, at any time after it began to end.           *)
(***************************************************************************)
EXTENDS Naturals, Sequences, FiniteSets, SequencesExt, FiniteSetsExt

CONSTANTS
  Activities,   \* each created once, all under one name
  Faults,       \* what may go wrong, out of FaultName
  MaxVersion,   \* bound: updates of an Activity
  MaxCrashes    \* bound: crashes

\* A bus error; an error that stays; a callback that fails for good; and a
\* restarting complete of an Activity that has been replaced.
FaultName == {"transient", "permanent", "callback", "late"}

None == 0

ASSUME PersistAssumption ==
  /\ IsFiniteSet(Activities)
  /\ None \notin Activities
  /\ Faults \subseteq FaultName
  /\ MaxVersion \in Nat
  /\ MaxCrashes \in Nat

VARIABLES
  act,     \* the Activities
  chains,  \* the chains of commands under way, by their heads
  token,   \* the persist tokens, which Activities share
  db,      \* the records in db8
  boot,    \* loading and purging (MojoDBProxy)
  told,    \* (history) what clients were last told is stored under the name
  failed,  \* (history) a failure since boot left things inconsistent
  crashes  \* bound: how often it crashed

vars == <<act, chains, token, db, boot, told, failed, crashes>>

-----------------------------------------------------------------------------
(* State.                                                                  *)

Tokens == 1..(Cardinality(Activities) + 1)
Ids == Nat \ {None}   \* of commands, and of records

\* A record: which Activity and which version of it, and when it was written.
Record == [of : Activities, version : 0..MaxVersion, rev : Nat]

Command ==
  [id     : Ids,
   kind   : {"store", "delete", "noop"},
   of     : Activities,
   finish : {"create", "update", "end", "replace"},
   status : {"waiting", "sent", "ok", "transient", "permanent"},
   record : Ids \cup {None},   \* the parameters of the call: _id, if there is one,
   version : 0..MaxVersion,    \* and what is stored
   rev    : Nat]               \* in the reply

ActivityState ==
  [life    : {"new", "live", "gone"},
   named   : BOOLEAN,
   persistent : BOOLEAN,           \* m_persistent: it is to be stored
   ending  : BOOLEAN,
   intCommand : BOOLEAN,           \* cancelled by the Manager
   extCommand : BOOLEAN,           \* ended by a client
   version : 0..MaxVersion,
   token   : Tokens \cup {None},   \* m_persistToken
   hooked  : Seq(Ids)]             \* m_persistCommands

Blank == [life |-> "new", named |-> FALSE, persistent |-> FALSE, ending |-> FALSE,
          intCommand |-> FALSE, extCommand |-> FALSE, version |-> 0,
          token |-> None, hooked |-> << >>]

TokenState == [valid : BOOLEAN, record : Ids \cup {None}, rev : Nat]

NoToken == [valid |-> FALSE, record |-> None, rev |-> 0]
Nothing == [of |-> None, version |-> 0]     \* no record under the name
Content(r) == [of |-> r.of, version |-> r.version]

Init ==
  /\ act = [a \in Activities |-> Blank]
  /\ chains = {}
  /\ token = [t \in Tokens |-> NoToken]
  /\ db = << >>
  /\ boot = [phase |-> "loading", loaded |-> {}, old |-> {}, enabled |-> FALSE]
  /\ told = Nothing
  /\ failed = FALSE
  /\ crashes = 0

Now == [act |-> act, chains |-> chains, token |-> token, told |-> told]

Become(s) == act' = s.act /\ chains' = s.chains /\ token' = s.token /\ told' = s.told

\* The state, but for one Activity.
SetAct(s, a, r) == [s EXCEPT !.act[a] = r]

\* What a boot would find under the name: the record written last.
LatestOf(records) ==
  IF DOMAIN records = {} THEN Nothing
  ELSE Content(records[CHOOSE i \in DOMAIN records :
                         \A j \in DOMAIN records : records[j].rev <= records[i].rev])

Commands(s) == UNION {ToSet(chain) : chain \in s.chains}

Unused(used) == CHOOSE i \in 1..(Cardinality(used) + 1) : i \notin used

-----------------------------------------------------------------------------
(* Commands and chains.                                                    *)

NewCommand(s, kind, a, finish) ==
  [id |-> Unused({c.id : c \in Commands(s)}), kind |-> kind, of |-> a,
   finish |-> finish, status |-> "waiting", record |-> None, version |-> 0, rev |-> 0]

Hook(s, c) == [s EXCEPT !.act[c.of].hooked = Append(@, c.id)]

\* Mutant of Chain: the command is not appended to those of the Activity.
ChainApart(s, a, c) == [s EXCEPT !.chains = @ \cup {<<c>>}]

\* The chain of the command that Activity a has hooked first.
ChainOf(s, a) ==
  CHOOSE chain \in s.chains : \E i \in DOMAIN chain : chain[i].id = Head(s.act[a].hooked)

\* Append the command to that chain, or let it be a chain of its own.
Chain(s, a, c) ==
  IF s.act[a].hooked = << >> THEN [s EXCEPT !.chains = @ \cup {<<c>>}]
  ELSE [s EXCEPT !.chains = (@ \ {ChainOf(s, a)}) \cup {Append(ChainOf(s, a), c)}]

Enqueue(s, a, c) == Hook(Chain(s, a, c), c)

\* PersistProxy::CreateToken, for an Activity that has none.
CreateToken(s, a) ==
  LET t == Unused({s.act[b].token : b \in Activities})
  IN [s EXCEPT !.act[a].token = t, !.token[t] = NoToken]

EnsureToken(s, a) == IF s.act[a].token = None THEN CreateToken(s, a) ELSE s

\* What the client is told: c's Activity is stored as c has stored it.
FinishStored(s, c) ==
  [s EXCEPT !.told = IF c.kind = "store" THEN [of |-> c.of, version |-> c.version]
                     ELSE IF c.finish = "create" THEN Nothing ELSE @]

FinishEnd(s, c) ==
  [s EXCEPT !.act[c.of].named = FALSE,
            !.told = IF @.of = c.of THEN Nothing ELSE @]

\* Mutant of FinishReplaceActivity: the old Activity keeps the token.
FinishReplaceActivityKeeping(s, c) == s

\* The token belongs to the Activity that replaced c's.
FinishReplaceActivity(s, c) == [s EXCEPT !.act[c.of].token = None]

Finish(s, c) ==
  CASE c.finish \in {"create", "update"} -> FinishStored(s, c)
    [] c.finish = "end"                  -> FinishEnd(s, c)
    [] c.finish = "replace"              -> FinishReplaceActivity(s, c)

\* PersistCommand::Complete: finish, unhook, and go on to the next one.
Complete(s, chain) ==
  LET c == Head(chain)
      t == Finish(s, c)
  IN [t EXCEPT !.act[c.of].hooked = RemoveAt(@, CHOOSE i \in DOMAIN @ : @[i] = c.id),
               !.chains = (@ \ {chain}) \cup ({Tail(chain)} \ {<< >>})]

SetHead(s, chain, c) ==
  [s EXCEPT !.chains = (@ \ {chain}) \cup {<<c>> \o Tail(chain)}]

TokenOf(s, c) == IF s.act[c.of].token = None THEN NoToken ELSE s.token[s.act[c.of].token]

\* Validate: a store needs a token, a delete one that stands for a record.
Valid(s, c) ==
  /\ s.act[c.of].token # None
  /\ c.kind = "delete" => TokenOf(s, c).valid

\* Mutant of Persist: a command that is not valid is left where it is.
PersistOnlyValid(s, chain) ==
  LET c == Head(chain)
  IN IF c.kind = "noop" THEN Complete(s, chain)
     ELSE IF ~Valid(s, c) THEN s
     ELSE SetHead(s, chain, [c EXCEPT !.status = "sent",
                                      !.version = s.act[c.of].version,
                                      !.record = TokenOf(s, c).record])

\* Persist: a noop completes at once, and so does a command that is not valid;
\* otherwise db8 is called, with parameters as of now.
Persist(s, chain) ==
  LET c == Head(chain)
  IN IF c.kind = "noop" \/ ~Valid(s, c) THEN Complete(s, chain)
     ELSE SetHead(s, chain, [c EXCEPT !.status = "sent",
                                      !.version = s.act[c.of].version,
                                      !.record = TokenOf(s, c).record])

-----------------------------------------------------------------------------
(* Service calls.                                                          *)

\* EnsureCompletion: a store or a delete if the Activity is persistent, a noop
\* if it must wait for others all the same.
EnsureCompletion(s, a, kind, finish) ==
  LET t == EnsureToken(s, a)
      c == NewCommand(t, kind, a, finish)
      noop == NewCommand(s, "noop", a, finish)
  IN IF s.act[a].persistent THEN Enqueue(t, a, c)
     ELSE IF s.act[a].hooked # << >> THEN Enqueue(s, a, noop)
     ELSE Finish(s, noop)

\* Two commands, one behind the other, in the chain of the old Activity.
EnqueueBoth(s, old, kind, of, finish, kind2, of2, finish2) ==
  LET c == NewCommand(s, kind, of, finish)
      t == Enqueue(s, old, c)
  IN Enqueue(t, of, NewCommand(t, kind2, of2, finish2))

\* EnsureReplaceCompletion: the new Activity takes the token over, or the old
\* one is deleted, before the create finishes.
EnsureReplaceCompletion(s, old, a) ==
  LET shared == IF s.act[old].token # None
                THEN [s EXCEPT !.act[a].token = s.act[old].token]
                ELSE CreateToken(s, a)
  IN IF s.act[a].persistent
       THEN EnqueueBoth(shared, old, "store", a, "create", "noop", old, "replace")
     ELSE IF s.act[old].persistent
       THEN EnqueueBoth(s, old, "delete", old, "replace", "noop", a, "create")
     ELSE IF s.act[old].hooked # << >>
       THEN EnqueueBoth(s, old, "noop", a, "create", "noop", old, "replace")
     ELSE LET create == NewCommand(s, "noop", a, "create")
          IN FinishReplaceActivity(Finish(s, create), [create EXCEPT !.of = old])

Ready == boot.phase # "loading"

\* A chain whose head has still to be looked at: nothing else happens before.
Busy == \E chain \in chains : Head(chain).status = "waiting"

CanCall == Ready /\ ~Busy

Named == {a \in Activities : act[a].life = "live" /\ act[a].named}

\* create, of a name nobody has.
Create(a, persistent) ==
  /\ CanCall
  /\ act[a].life = "new"
  /\ Named = {}
  /\ Become(EnsureCompletion(
       SetAct(Now, a, [act[a] EXCEPT !.life = "live", !.named = TRUE,
                               !.persistent = persistent]), a, "store", "create"))
  /\ UNCHANGED <<db, boot, failed, crashes>>

\* create with replace. Cancelling the old Activity throws if the Manager has
\* cancelled it before.
Replace(a, old, persistent) ==
  /\ CanCall
  /\ act[a].life = "new"
  /\ old \in Named
  /\ ~act[old].intCommand
  /\ LET s == SetAct(Now, old, [act[old] EXCEPT !.intCommand = TRUE, !.ending = TRUE,
                                                 !.named = FALSE])
         t == SetAct(s, a, [act[a] EXCEPT !.life = "live", !.named = TRUE,
                                          !.persistent = persistent])
     IN Become(EnsureReplaceCompletion(t, old, a))
  /\ UNCHANGED <<db, boot, failed, crashes>>

\* complete with restart, which updates the Activity.
Update(a) ==
  /\ CanCall
  /\ act[a].life = "live"
  /\ ~act[a].extCommand
  /\ act[a].version < MaxVersion
  /\ "late" \in Faults \/ ~act[a].intCommand
  /\ Become(EnsureCompletion(
       SetAct(Now, a, [act[a] EXCEPT !.version = @ + 1]), a, "store", "update"))
  /\ UNCHANGED <<db, boot, failed, crashes>>

\* stop, cancel and complete.
End(a) ==
  /\ CanCall
  /\ act[a].life = "live"
  /\ ~act[a].extCommand
  /\ Become(EnsureCompletion(
       SetAct(Now, a, [act[a] EXCEPT !.extCommand = TRUE, !.ending = TRUE]), a, "delete", "end"))
  /\ UNCHANGED <<db, boot, failed, crashes>>

\* CallbackFailed, for good: the Activity is cancelled, and its record stays.
CallbackFails(a) ==
  /\ "callback" \in Faults
  /\ CanCall
  /\ act[a].life = "live"
  /\ ~act[a].intCommand
  /\ Become(SetAct(Now, a, [act[a] EXCEPT !.intCommand = TRUE, !.ending = TRUE]))
  /\ failed' = (failed \/ act[a].persistent)
  /\ UNCHANGED <<db, boot, crashes>>

\* The end of EndActivity: nobody subscribes and no command is hooked.
Release(a) ==
  /\ CanCall
  /\ act[a].life = "live" /\ act[a].ending /\ act[a].hooked = << >>
  /\ Become(SetAct(Now, a, [Blank EXCEPT !.life = "gone"]))
  /\ UNCHANGED <<db, boot, failed, crashes>>

-----------------------------------------------------------------------------
(* The chains, and db8.                                                    *)

\* Persist is called on the head of a chain, by a call or by Complete.
PersistNext ==
  /\ \E chain \in chains : Head(chain).status = "waiting" /\ Become(Persist(Now, chain))
  /\ UNCHANGED <<db, boot, failed, crashes>>

\* A put: a new record, or a new revision of the one the parameters name.
Put(c) ==
  LET r == IF c.record = None THEN Unused(DOMAIN db) ELSE c.record
      rev == 1 + Max({0} \cup {db[i].rev : i \in DOMAIN db})
      written == [of |-> c.of, version |-> c.version, rev |-> rev]
  IN [db   |-> [i \in DOMAIN db \cup {r} |-> IF i = r THEN written ELSE db[i]],
      head |-> [c EXCEPT !.status = "ok", !.record = r, !.rev = rev]]

Del(c) ==
  [db   |-> [i \in DOMAIN db \ {c.record} |-> db[i]],
   head |-> [c EXCEPT !.status = "ok"]]

\* db8 does what it is asked to.
DbDoes(chain) ==
  LET c == Head(chain)
      done == IF c.kind = "store" THEN Put(c) ELSE Del(c)
  IN /\ c.status = "sent"
     /\ db' = done.db
     /\ Become(SetHead(Now, chain, done.head))
     /\ UNCHANGED <<boot, failed, crashes>>

\* The call fails, for now or for good.
DbFails(chain, error) ==
  LET c == Head(chain)
  IN /\ error \in Faults \cap {"transient", "permanent"}
     /\ c.status = "sent"
     /\ Become(SetHead(Now, chain, [c EXCEPT !.status = error]))
     /\ failed' = (failed \/ error = "permanent")
     /\ UNCHANGED <<db, boot, crashes>>

\* A store's reply: the token's Set, or its Update.
SetToken(s, c) ==
  LET t == s.act[c.of].token
  IN [s EXCEPT !.token[t] = [valid |-> TRUE, record |-> c.record, rev |-> c.rev]]

\* A delete's reply: the token's Clear.
ClearToken(s, c) == [s EXCEPT !.token[s.act[c.of].token] = NoToken]

\* Update throws if the reply is about another record, or an older revision.
Accepts(s, c) ==
  LET t == TokenOf(s, c)
  IN /\ s.act[c.of].token # None
     /\ t.valid => t.record = c.record /\ t.rev <= c.rev

\* PersistResponse: success, a retry with the same parameters, or the end.
Respond(chain) ==
  LET c == Head(chain)
      s == IF c.status # "ok" THEN Now
           ELSE IF c.kind = "delete" THEN ClearToken(Now, c)
           ELSE IF Accepts(Now, c) THEN SetToken(Now, c) ELSE Now
  IN /\ c.status \in {"ok", "transient", "permanent"}
     /\ Become(IF c.status = "transient" THEN SetHead(s, chain, [c EXCEPT !.status = "sent"])
               ELSE Complete(s, chain))
     /\ UNCHANGED <<db, boot, failed, crashes>>

-----------------------------------------------------------------------------
(* Crash, and boot.                                                        *)

\* What was not in db8 is lost, calls under way included.
Crash ==
  /\ crashes < MaxCrashes
  /\ crashes' = crashes + 1
  /\ act' = [a \in Activities |->
               IF act[a].life = "new" THEN Blank ELSE [Blank EXCEPT !.life = "gone"]]
  /\ chains' = {}
  /\ token' = [t \in Tokens |-> NoToken]
  /\ boot' = [phase |-> "loading", loaded |-> {}, old |-> {}, enabled |-> FALSE]
  /\ told' = IF failed THEN told ELSE LatestOf(db)
  /\ UNCHANGED <<db, failed>>

\* Mutant of LoadRecord: the older of two records is kept.
LoadRecordFirst(r) ==
  /\ boot.phase = "loading"
  /\ r \in DOMAIN db \ boot.loaded
  /\ LET a == db[r].of
         t == Unused({act[b].token : b \in Activities})
         new == [Blank EXCEPT !.life = "live", !.named = TRUE, !.persistent = TRUE,
                              !.version = db[r].version, !.token = t]
     IN IF Named # {}
        THEN /\ boot' = [boot EXCEPT !.loaded = @ \cup {r}, !.old = @ \cup {r}]
             /\ UNCHANGED <<act, token>>
        ELSE /\ boot' = [boot EXCEPT !.loaded = @ \cup {r}]
             /\ act' = [act EXCEPT ![a] = new]
             /\ token' = [token EXCEPT ![t] = [valid |-> TRUE, record |-> r, rev |-> db[r].rev]]
  /\ UNCHANGED <<chains, db, told, failed, crashes>>

\* ActivityLoadResults: of two records under one name (or one id), the Activity
\* of the newer is kept, and the token of the older is remembered.
LoadRecord(r) ==
  /\ boot.phase = "loading"
  /\ r \in DOMAIN db \ boot.loaded
  /\ LET a == db[r].of
         t == Unused({act[b].token : b \in Activities})
         new == [Blank EXCEPT !.life = "live", !.named = TRUE, !.persistent = TRUE,
                              !.version = db[r].version, !.token = t]
         kept == CHOOSE b \in Named : TRUE
         older == token[act[kept].token]
     IN IF Named # {} /\ db[r].rev <= older.rev
        THEN /\ boot' = [boot EXCEPT !.loaded = @ \cup {r}, !.old = @ \cup {r}]
             /\ UNCHANGED <<act, token>>
        ELSE /\ boot' = [boot EXCEPT
                            !.loaded = @ \cup {r},
                            !.old = IF Named = {} THEN @ ELSE @ \cup {older.record}]
             /\ act' = [b \in Activities |->
                           IF b = a THEN new
                           ELSE IF b \in Named THEN [Blank EXCEPT !.life = "gone"]
                           ELSE act[b]]
             /\ token' = [token EXCEPT ![t] = [valid |-> TRUE, record |-> r, rev |-> db[r].rev]]
  /\ UNCHANGED <<chains, db, told, failed, crashes>>

\* The last page: purge what is old, or be done. Clients are let in either way.
LoadEnds ==
  /\ boot.phase = "loading"
  /\ boot.loaded = DOMAIN db
  /\ boot' = [boot EXCEPT !.phase = IF boot.old = {} THEN "done" ELSE "purging",
                          !.enabled = boot.old = {}]
  /\ IF boot.old = {} THEN failed' = FALSE /\ told' = LatestOf(db)
     ELSE UNCHANGED <<failed, told>>
  /\ UNCHANGED <<act, chains, token, db, crashes>>

\* A page cannot be had: the Manager is ready, but never enabled.
LoadFails ==
  /\ "permanent" \in Faults
  /\ boot.phase = "loading"
  /\ boot' = [boot EXCEPT !.phase = "stuck"]
  /\ failed' = TRUE
  /\ UNCHANGED <<act, chains, token, db, told, crashes>>

\* ActivityPurgeComplete, of the one batch there is.
Purge ==
  /\ boot.phase = "purging" /\ ~Busy
  /\ \/ /\ db' = [i \in DOMAIN db \ boot.old |-> db[i]]
        /\ boot' = [boot EXCEPT !.phase = "done", !.enabled = TRUE, !.old = {}]
     \/ /\ "permanent" \in Faults
        /\ boot' = [boot EXCEPT !.phase = "stuck"]
        /\ UNCHANGED db
  /\ UNCHANGED <<act, chains, token, told, failed, crashes>>

-----------------------------------------------------------------------------
Next ==
  \/ \E a \in Activities, p \in BOOLEAN : Create(a, p)
  \/ \E a, old \in Activities, p \in BOOLEAN : Replace(a, old, p)
  \/ \E a \in Activities : Update(a)
  \/ \E a \in Activities : End(a)
  \/ \E a \in Activities : CallbackFails(a)
  \/ \E a \in Activities : Release(a)
  \/ PersistNext
  \/ \E chain \in chains : DbDoes(chain)
  \/ \E chain \in chains, error \in FaultName : DbFails(chain, error)
  \/ \E chain \in chains : Respond(chain)
  \/ Crash
  \/ \E r \in DOMAIN db : LoadRecord(r)
  \/ LoadEnds
  \/ LoadFails
  \/ Purge

Safety == Init /\ [][Next]_vars

\* Handlers go on, replies are delivered, and db8 does not fail forever.
Spec ==
  /\ Safety
  /\ WF_vars(PersistNext)
  /\ WF_vars(\E chain \in chains : Respond(chain))
  /\ WF_vars(\E r \in DOMAIN db : LoadRecord(r))
  /\ WF_vars(LoadEnds)
  /\ WF_vars(Purge)
  /\ SF_vars(\E chain \in chains : DbDoes(chain))

-----------------------------------------------------------------------------
(* Properties.                                                             *)

\* The state is what its declarations say.
TypeOK ==
  /\ act \in [Activities -> ActivityState]
  /\ \A c \in Commands(Now) : c \in Command
  /\ token \in [Tokens -> TokenState]
  /\ DOMAIN db \subseteq Ids /\ \A r \in DOMAIN db : db[r] \in Record

\* What a command still to finish makes of the record under the name.
Outcome(c) ==
  CASE c.kind = "store" ->
         {[of |-> c.of, version |-> v] : v \in c.version..act[c.of].version}
    [] c.kind = "delete" -> {Nothing}
    [] c.kind = "noop" /\ c.finish = "create" -> {Nothing}
    [] OTHER -> {}

\* A crash at any moment leaves what the clients were last told, or what a
\* call that has not been answered was to make of it.
ToldIsDurable ==
  ~failed => LatestOf(db) \in {told} \cup UNION {Outcome(c) : c \in Commands(Now)}

\* Each hooked command is in one chain, once, and a chain gets to the commands
\* of an Activity in the order they were hooked.
ChainsInOrder ==
  /\ \A a \in Activities : \A i \in 1..Len(act[a].hooked) :
       \E chain \in chains : \E j \in 1..Len(chain) :
         /\ chain[j].id = act[a].hooked[i] /\ chain[j].of = a
         /\ \A k \in 1..(j - 1) : chain[k].of = a =>
              \E l \in 1..(i - 1) : act[a].hooked[l] = chain[k].id
  /\ \A chain \in chains : Head(act[Head(chain).of].hooked) = Head(chain).id

\* A token that stands for a record stands for one that is there, with its
\* revision; only a command that db8 has just done may be ahead of it.
TokenIsCurrent ==
  ~failed => \A a \in Activities :
    LET t == token[act[a].token]
    IN act[a].token # None /\ t.valid =>
         \/ t.record \in DOMAIN db /\ db[t.record].rev = t.rev
         \/ \E chain \in chains : Head(chain).status = "ok" /\ Head(chain).record = t.record

\* Commands, chains and tokens fit each other and db8.
Consistent == TypeOK /\ ChainsInOrder /\ TokenIsCurrent

\* Loading brings back the latest record under the name, as the only Activity,
\* and every other record is purged.
LoadBringsLatest ==
  [][ boot.phase = "loading" /\ boot'.phase \in {"purging", "done"} =>
      LET latest == LatestOf(db)
      IN /\ {a \in Activities : act'[a].life = "live"} = {latest.of} \ {None}
         /\ \A a \in Named : act'[a].version = latest.version
         /\ Cardinality(DOMAIN db \ boot'.old) = IF db = << >> THEN 0 ELSE 1 ]_vars

\* Once every command has finished, only the Activity that has the name is in
\* db8: what is done to one that was replaced cannot affect its persistence.
ReplacedStaysAway ==
  chains = {} /\ ~failed /\ boot.phase = "done" => \A r \in DOMAIN db : db[r].of \in Named

\* Every command that was hooked finishes, however the calls before it go, and
\* a chain never waits for itself.
ChainsEnd == []<>(chains = {})
=============================================================================
