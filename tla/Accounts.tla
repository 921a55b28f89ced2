------------------------------- MODULE Accounts -------------------------------
(***************************************************************************)
(* config.yaml, the registry of named accounts.  `accounts add`, `use` and *)
(* `remove` load it, change it and replace it by a renamed temporary file, *)
(* under the lock of the directory it lies in - which is also the lock of  *)
(* the default store, held by any command that writes there.  Every other  *)
(* command reads it to find its store, without a lock and twice.           *)
(***************************************************************************)
EXTENDS Naturals

CONSTANTS
    AccountNames,
    AccountCommands,    \* processes that run an `accounts` command
    StoreCommands,      \* processes that run a command on some store
    NoAccount,
    NoFile              \* there is no config.yaml

Config == [accounts : SUBSET AccountNames, default : AccountNames \cup {NoAccount}]

ASSUME AccountsAssumption ==
    /\ NoAccount \notin AccountNames /\ NoFile \notin Config
    /\ AccountCommands \cap StoreCommands = {}
    /\ NoAccount \notin AccountCommands \cup StoreCommands

VARIABLES
    configFile,     \* config.yaml
    configLock,     \* <base>/LOCK: its holder
    editor,         \* each accounts command
    resolver,       \* each store command
    accountDirs,    \* stores that were created
    registry        \* history: the registry, as the commands that took effect
                    \* left it one after the other

accountsVars == <<configFile, configLock, editor, resolver, accountDirs, registry>>

EmptyConfig == [accounts |-> {}, default |-> NoAccount]
NoProcess == NoAccount

ConfigEdits == {"add", "use", "remove"}
EditorOut == [at |-> "out", edit |-> "add", name |-> NoAccount, config |-> EmptyConfig]
ResolverOut == [at |-> "out", name |-> NoAccount]

AccountsInit ==
    /\ configFile = NoFile /\ configLock = NoProcess
    /\ editor = [p \in AccountCommands |-> EditorOut]
    /\ resolver = [p \in StoreCommands |-> ResolverOut]
    /\ accountDirs = {} /\ registry = EmptyConfig

\* LoadAccountsConfigIfExists
Loaded == IF configFile = NoFile THEN EmptyConfig ELSE configFile

\* validateAccountsConfig
ValidConfig(c) == c.default \in c.accounts \cup {NoAccount}

-----------------------------------------------------------------------------
(* The accounts commands.                                                  *)

EditorStep(p, at) == editor' = [editor EXCEPT ![p].at = at]
ReadersUnchanged == UNCHANGED resolver

StartEdit(p) ==
    /\ editor[p].at = "out"
    /\ \E e \in ConfigEdits, n \in AccountNames :
         editor' = [editor EXCEPT ![p] = [EditorOut EXCEPT !.at = "lock", !.edit = e,
                                                           !.name = n]]
    /\ UNCHANGED <<configFile, configLock, accountDirs, registry>> /\ ReadersUnchanged

\* Variant: the registry is changed without the lock.
LockNotNeeded(p) == UNCHANGED configLock

TakeConfigLock(p) == configLock = NoProcess /\ configLock' = p

\* withAccountsConfigLock
LockConfig(p) ==
    /\ editor[p].at = "lock"
    /\ TakeConfigLock(p) /\ EditorStep(p, "load")
    /\ UNCHANGED <<configFile, accountDirs, registry>> /\ ReadersUnchanged

\* Someone holds the lock, and still does after --lock-wait.
ConfigIsLocked(p) ==
    /\ editor[p].at = "lock" /\ configLock # NoProcess
    /\ editor' = [editor EXCEPT ![p] = EditorOut]
    /\ UNCHANGED <<configFile, configLock, accountDirs, registry>> /\ ReadersUnchanged

\* The command is refused: the account exists, or it does not.
Refused(e, n, c) ==
    \/ e = "add" /\ n \in c.accounts
    \/ e # "add" /\ n \notin c.accounts

AddAccount(c, n) == [accounts |-> c.accounts \cup {n},
                     default |-> IF c.default = NoAccount THEN n ELSE c.default]
UseAccount(c, n) == [c EXCEPT !.default = n]
RemoveAccount(c, n) == [accounts |-> c.accounts \ {n},
                        default |-> IF c.default = n THEN NoAccount ELSE c.default]

Edited(e, n, c) == CASE e = "add" -> AddAccount(c, n)
                     [] e = "use" -> UseAccount(c, n)
                     [] e = "remove" -> RemoveAccount(c, n)

Leave(p) ==
    /\ editor' = [editor EXCEPT ![p] = EditorOut]
    /\ configLock' = IF configLock = p THEN NoProcess ELSE configLock

LoadConfig(p) ==
    /\ editor[p].at = "load"
    /\ LET e == editor[p].edit   n == editor[p].name IN
         IF Refused(e, n, Loaded)
         THEN Leave(p) /\ UNCHANGED accountDirs
         ELSE \* add creates the store's directory
              /\ accountDirs' = IF e = "add" THEN accountDirs \cup {n} ELSE accountDirs
              /\ editor' = [editor EXCEPT ![p].at = "save",
                                          ![p].config = Edited(e, n, Loaded)]
              /\ UNCHANGED configLock
    /\ UNCHANGED <<configFile, registry>> /\ ReadersUnchanged

\* Variant: the file is emptied and written in place.
WriteInPlace(p) == configFile' = EmptyConfig

WriteTemp(p) == UNCHANGED configFile

\* SaveAccountsConfig: the temporary file is written ...
WriteConfig(p) ==
    /\ editor[p].at = "save" /\ ValidConfig(editor[p].config)
    /\ WriteTemp(p) /\ EditorStep(p, "rename")
    /\ UNCHANGED <<configLock, accountDirs, registry>> /\ ReadersUnchanged

\* ... and renamed; the command reports and releases the lock.
RenameConfig(p) ==
    /\ editor[p].at = "rename"
    /\ configFile' = editor[p].config
    /\ registry' = Edited(editor[p].edit, editor[p].name, registry)
    /\ EditorStep(p, "saved")
    /\ UNCHANGED <<configLock, accountDirs>> /\ ReadersUnchanged

\* Done, a failed write, or death: flock frees the lock.
EditEnds(p) ==
    /\ editor[p].at \in {"load", "save", "rename", "saved"} /\ Leave(p)
    /\ UNCHANGED <<configFile, accountDirs, registry>> /\ ReadersUnchanged

-----------------------------------------------------------------------------
(* Any other command, with neither --store nor --account: resolveStoreDir. *)

EditorsUnchanged == UNCHANGED <<configFile, editor, accountDirs, registry>>

\* The default account, if there is one; otherwise the base directory.
ReadDefaultAccount(p) ==
    /\ resolver[p].at = "out"
    /\ resolver' = [resolver EXCEPT ![p] =
                      [at |-> IF Loaded.default = NoAccount THEN "base" ELSE "entry",
                       name |-> Loaded.default]]
    /\ UNCHANGED configLock /\ EditorsUnchanged

\* ResolveAccountStore reads the file again: the account may be gone.
ReadAccountEntry(p) ==
    /\ resolver[p].at = "entry"
    /\ resolver' = [resolver EXCEPT ![p].at = IF resolver[p].name \in Loaded.accounts
                                              THEN "account" ELSE "failed"]
    /\ UNCHANGED configLock /\ EditorsUnchanged

\* newApp: a writing command on the base directory takes the same lock.
LockBaseStore(p) ==
    /\ resolver[p].at = "base" /\ configLock = NoProcess
    /\ configLock' = p /\ resolver' = [resolver EXCEPT ![p].at = "writing"]
    /\ EditorsUnchanged

StoreCommandEnds(p) ==
    /\ resolver[p].at \in {"base", "account", "failed", "writing"}
    /\ resolver' = [resolver EXCEPT ![p] = ResolverOut]
    /\ configLock' = IF configLock = p THEN NoProcess ELSE configLock
    /\ EditorsUnchanged

-----------------------------------------------------------------------------

AccountsNext ==
    \/ \E p \in AccountCommands :
         \/ StartEdit(p) \/ LockConfig(p) \/ ConfigIsLocked(p) \/ LoadConfig(p)
         \/ WriteConfig(p) \/ RenameConfig(p) \/ EditEnds(p)
    \/ \E p \in StoreCommands :
         \/ ReadDefaultAccount(p) \/ ReadAccountEntry(p)
         \/ LockBaseStore(p) \/ StoreCommandEnds(p)

AccountsSpec == AccountsInit /\ [][AccountsNext]_accountsVars

-----------------------------------------------------------------------------
(* Properties.                                                             *)

AccountsTypeOK ==
    /\ configFile \in Config \cup {NoFile} /\ registry \in Config
    /\ configLock \in AccountCommands \cup StoreCommands \cup {NoProcess}
    /\ editor \in [AccountCommands ->
                     [at : {"out", "lock", "load", "save", "rename", "saved"},
                      edit : ConfigEdits, name : AccountNames \cup {NoAccount},
                      config : Config]]
    /\ resolver \in [StoreCommands ->
                       [at : {"out", "entry", "base", "account", "failed", "writing"},
                        name : AccountNames \cup {NoAccount}]]
    /\ accountDirs \subseteq AccountNames

\* What any reader finds in config.yaml, at any time, is the registry as the
\* commands that took effect left it one after the other: none undoes what
\* another one saved, a command that dies half-way leaves the file as it was,
\* the default is an account that exists, and every account has its store.
ConfigIsSerial ==
    /\ Loaded = registry /\ ValidConfig(Loaded)
    /\ Loaded.accounts \subseteq accountDirs
=============================================================================
