---------------------------- MODULE SignalCache ----------------------------
(***************************************************************************)
(* research/mds/sigcache.py: the cache of evaluated signals.  A result is  *)
(* filed under the address of what it was computed from: the fingerprint   *)
(* of the expression and the content of each column it reads.  Every       *)
(* process has its own tier in memory (least recently used first out,      *)
(* bounded in items and in bytes) in front of one directory that all the   *)
(* processes share without a lock.                                         *)
(*                                                                         *)
(* One call of evaluate() is a chain of steps of its process, because any  *)
(* other process may touch the directory between two of them: look up,     *)
(* read the file that existed, unlink it when it does not parse, evaluate, *)
(* write a temporary file, rename it.                                      *)
(***************************************************************************)
EXTENDS Integers, Sequences, FiniteSetsExt, Functions

CONSTANTS
    Procs,      \* the processes that open the cache directory
    Signals,    \* the source texts that may be evaluated
    Expr,       \* Expr[s]: the canonical form of the signal's syntax tree
    Reads,      \* Reads[s]: the set of columns the signal reads
    Bad,        \* the signals whose compilation or evaluation raises
    Cols,       \* the columns of the environment
    Versions,   \* the contents a column may have
    SizeOf,     \* SizeOf[e]: the bytes of the panel of expression e
    MemItems,   \* SignalCache.memory_items
    MemBytes,   \* SignalCache.memory_bytes
    Leftovers   \* addresses whose file an earlier version may have left torn

Panels ==
    UNION {{<<Expr[s], d>> : d \in [Reads[s] -> Versions]} : s \in Signals}

ASSUME CacheAssumption ==
    /\ Bad \subseteq Signals
    /\ \A s \in Signals : Reads[s] \subseteq Cols /\ SizeOf[Expr[s]] \in Nat
    /\ \A s \in Signals \ Bad : Reads[s] # {}   \* else a scalar: never cached
    /\ MemItems \in Nat /\ MemBytes \in Nat
    /\ Leftovers \subseteq Panels

VARIABLES
    data,   \* content of each column of the environment
    disk,   \* address -> Absent, Torn, or the panel stored in the file
    temp,   \* temporary files: pairs <<process, address>>
    mem,    \* process -> its panels in memory, least recently used first
    bytes,  \* process -> its running total of those panels' sizes
    op      \* process -> the step its evaluate() has reached

cacheVars == <<data, disk, temp, mem, bytes, op>>

Absent == [file |-> "absent"]
Torn == [file |-> "torn"]
Whole(panel) == [file |-> "whole", panel |-> panel]

(* Evaluation is a function of the expression and the columns it reads. *)
Value(s) == <<Expr[s], [c \in Reads[s] |-> data[c]]>>

(* The address: the code hash and the hash of each column the signal reads. *)
BugKey(s) == <<Expr[s], [c \in Reads[s] |-> CHOOSE v \in Versions : TRUE]>>
Key(s) == <<Expr[s], [c \in Reads[s] |-> data[c]]>>

Idle == [at |-> "idle"]
Go(p, step, s) == op' = [op EXCEPT ![p] = [at |-> step, signal |-> s]]
Serve(p, s, panel) ==
    op' = [op EXCEPT ![p] = [at |-> "served", signal |-> s, panel |-> panel]]
Raise(p, s) == Go(p, "raised", s)
Doing(p, step) == op[p].at = step

CacheInit ==
    /\ data \in [Cols -> Versions]
    /\ \E torn \in SUBSET Leftovers :
          disk = [k \in Panels |-> IF k \in torn THEN Torn ELSE Absent]
    /\ temp = {}
    /\ mem = [p \in Procs |-> <<>>]
    /\ bytes = [p \in Procs |-> 0]
    /\ op = [p \in Procs |-> Idle]

----------------------------------------------------------------------------
(* The memory tier: entries [key, panel], oldest use first. *)

Size(entry) == SizeOf[entry.panel[1]]
SizeSum(s) == SumFunctionOnSet([i \in DOMAIN s |-> Size(s[i])], DOMAIN s)
Fits(s) == Len(s) <= MemItems /\ SizeSum(s) <= MemBytes
Suffix(s, n) == SubSeq(s, n + 1, Len(s))

(* popitem(last=False) until both budgets are met: n entries go.           *)
BugEvictions(s, total, n) ==
    /\ Len(s) - n <= MemItems
    /\ \A k \in 0..(n-1) : Len(s) - k > MemItems
Evictions(s, total, n) ==
    LET Over(k) ==
          Len(s) - k > MemItems \/ total - SizeSum(SubSeq(s, 1, k)) > MemBytes
    IN /\ n < Len(s) => ~Over(n)
       /\ \A k \in 0..(n-1) : Over(k)

Remember(p, k, panel) ==
    LET all == Append(mem[p], [key |-> k, panel |-> panel])
        total == bytes[p] + Size(all[Len(all)])
    IN \E n \in 0..Len(all) :
          /\ Evictions(all, total, n)
          /\ mem' = [mem EXCEPT ![p] = Suffix(all, n)]
          /\ bytes' = [bytes EXCEPT ![p] = total - SizeSum(SubSeq(all, 1, n))]

Cached(p, k) == \E i \in DOMAIN mem[p] : mem[p][i].key = k

(* move_to_end of entry i. *)
Touched(p, i) ==
    SubSeq(mem[p], 1, i - 1) \o SubSeq(mem[p], i + 1, Len(mem[p])) \o <<mem[p][i]>>

----------------------------------------------------------------------------
(* evaluate(), step by step, by process p for signal s. *)

(* Compile, address, memory, and whether a file exists for the address. *)
LookUp(p, s) ==
    /\ Doing(p, "idle")
    /\ \/ /\ s \in Bad
          /\ Raise(p, s) /\ UNCHANGED mem
       \/ /\ s \notin Bad
          /\ \E i \in DOMAIN mem[p] :
                /\ mem[p][i].key = Key(s)
                /\ mem' = [mem EXCEPT ![p] = Touched(p, i)]
                /\ Serve(p, s, mem[p][i].panel)
       \/ /\ s \notin Bad /\ ~Cached(p, Key(s))
          /\ Go(p, IF disk[Key(s)] = Absent THEN "evaluate" ELSE "read", s)
          /\ UNCHANGED mem
    /\ UNCHANGED <<data, disk, temp, bytes>>

(* The file is read after the test for its existence: another process may  *)
(* have replaced or unlinked it, and a torn one does not parse.            *)
BugRead(p) ==
    LET s == op[p].signal IN
    /\ Doing(p, "read")
    /\ IF disk[Key(s)] \in {Absent, Torn}
       THEN Raise(p, s) /\ UNCHANGED <<mem, bytes>>
       ELSE /\ Remember(p, Key(s), disk[Key(s)].panel)
            /\ Serve(p, s, disk[Key(s)].panel)
    /\ UNCHANGED <<data, disk, temp>>
Read(p) ==
    LET s == op[p].signal IN
    /\ Doing(p, "read")
    /\ IF disk[Key(s)] \in {Absent, Torn}
       THEN Go(p, "unlink", s) /\ UNCHANGED <<mem, bytes>>
       ELSE /\ Remember(p, Key(s), disk[Key(s)].panel)
            /\ Serve(p, s, disk[Key(s)].panel)
    /\ UNCHANGED <<data, disk, temp>>

(* unlink(missing_ok=True): whatever file is there by now goes. *)
Unlink(p) ==
    LET s == op[p].signal IN
    /\ Doing(p, "unlink")
    /\ disk' = [disk EXCEPT ![Key(s)] = Absent]
    /\ Go(p, "evaluate", s)
    /\ UNCHANGED <<data, temp, mem, bytes>>

(* _atomic_write, first half: the panel goes to a file of this process. *)
BugWriteTemp(p) ==
    LET s == op[p].signal IN
    /\ Doing(p, "evaluate")
    /\ disk' = [disk EXCEPT ![Key(s)] = Torn]
    /\ temp' = temp \cup {<<p, Key(s)>>}
    /\ Go(p, "rename", s)
    /\ UNCHANGED <<data, mem, bytes>>
WriteTemp(p) ==
    LET s == op[p].signal IN
    /\ Doing(p, "evaluate")
    /\ temp' = temp \cup {<<p, Key(s)>>}
    /\ Go(p, "rename", s)
    /\ UNCHANGED <<data, disk, mem, bytes>>

(* _atomic_write, second half: os.replace, then the memory tier. *)
Rename(p) ==
    LET s == op[p].signal IN
    /\ Doing(p, "rename")
    /\ disk' = [disk EXCEPT ![Key(s)] = Whole(Value(s))]
    /\ temp' = temp \ {<<p, Key(s)>>}
    /\ Remember(p, Key(s), Value(s))
    /\ Serve(p, s, Value(s))
    /\ UNCHANGED data

(* The write or the rename fails: the temporary file is removed, and the  *)
(* error passes through evaluate().                                        *)
WriteFails(p) ==
    LET s == op[p].signal IN
    /\ Doing(p, "rename")
    /\ temp' = temp \ {<<p, Key(s)>>}
    /\ Raise(p, s)
    /\ UNCHANGED <<data, disk, mem, bytes>>

CacheStep(p) == Read(p) \/ Unlink(p) \/ WriteTemp(p) \/ Rename(p)
=============================================================================
