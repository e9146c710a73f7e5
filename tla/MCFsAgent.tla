----------------------------- MODULE MCFsAgent -----------------------------
(***************************************************************************)
(* The FS agent for TLC: the commands of two users on a transient name, on *)
(* two spellings of one persistent name, on a name with "..", on the       *)
(* storage of an encrypted user (CE) and on open files.                    *)
(***************************************************************************)
EXTENDS FsAgent

CONSTANT Kinds  \* the commands sent in this run

Transient == <<"sec_storage_data", "a">>
Plain == <<"a">>
Rooted == <<"/", "sec_storage", "a">>
Upward == <<"..", "a">>

MCComponents ==
  {"/", "data", "el2", "tee", "sec_storage", "sec_storage_data", "_private",
   "sec_storage_data_users", "0", "1", "2", "a", ".."}

Named(cmd, user, storage, name) ==
  [cmd |-> cmd, user |-> user, storage |-> storage, name |-> name]
TwoNames(cmd, user, from, to) ==
  [cmd |-> cmd, user |-> user, storage |-> "std", name |-> from, name2 |-> to]
OnFile(cmd, fd) == [cmd |-> cmd, fd |-> fd]

MCRequests ==
  {r \in
     {Named(c, u, "std", Transient) : c \in {"create", "truncate"}, u \in {"0", "1"}}
     \cup {Named("open", "1", "std", Transient), Named("remove", "2", "std", Transient),
           Named("create", "0", "std", Upward), Named("remove", "1", "std", Plain)}
     \cup {Named("create", "0", "ce", <<"1", "a">>), Named("remove", "0", "ce", <<"1">>),
           Named("access", "1", "std", Rooted)}
     \cup {Named("deleteall", "1", "std", n) : n \in {TransientDir, PersistentDir}}
     \cup {TwoNames(c, "1", Transient, Rooted) : c \in {"rename", "cp"}}
     \cup {TwoNames("rename", "0", Plain, Transient), TwoNames("cp", "0", Plain, Rooted)}
     \cup {OnFile(c, f) : c \in {"close", "fsync", "seek"}, f \in {1, 2}}
     \cup {[cmd |-> "write", fd |-> f, piece |-> p, ssa |-> b] :
             f \in {1, 2}, p \in Pieces, b \in BOOLEAN}
     \cup {[cmd |-> "info", fd |-> 1], [cmd |-> "read", fd |-> 2], [cmd |-> "access2"], [cmd |-> "diskusage"],
           [cmd |-> "invalid"]}
   : r.cmd \in Kinds}
=============================================================================
