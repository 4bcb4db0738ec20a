---------------------------- MODULE MemoryBudget ----------------------------
(***************************************************************************)
(* The node's memory budget (memory_limit_mb): ResourceBudget and          *)
(* ResourceAccount of include/nss/resources.hpp.  Every operation runs     *)
(* under the budget's mutex.  Sizes are std::size_t: arithmetic is modulo  *)
(* SizeMax + 1, and only checked_add looks for overflow.                   *)
(***************************************************************************)
EXTENDS Integers, FiniteSets, FiniteSetsExt

CONSTANTS Accounts,   \* ResourceAccount objects
          FirstKind,  \* account -> the kind it is made with
          Limit,      \* memory_limit_mb in bytes; SizeMax: none
          SizeMax     \* the largest std::size_t

Kinds == {"Workspace", "Cached", "Pinned", "Inflight", "Output", "Framework"}
OwnedKinds == Kinds \ {"Framework"}

ASSUME BudgetAssumption ==
    /\ SizeMax \in Nat /\ Limit \in 0 .. SizeMax
    /\ IsFiniteSet(Accounts) /\ FirstKind \in [Accounts -> Kinds]

VARIABLES bytes,      \* ResourceSnapshot::bytes, kind -> size
          owned,      \* ResourceSnapshot::owned
          peak,       \* ResourceSnapshot::peak
          account     \* account -> its kind_ and bytes_

budget == <<bytes, owned, peak, account>>

Sizes == 0 .. SizeMax
Wrap(n) == n % (SizeMax + 1)

BudgetInit ==
    /\ bytes = [k \in Kinds |-> 0]
    /\ owned = 0 /\ peak = 0
    /\ account = [a \in Accounts |-> [kind |-> FirstKind[a], bytes |-> 0]]

\* checked_add throws.
Overflows(x, y) == y > SizeMax - x

\* Mutant: the sum is compared, which wraps.
ExceedsSum(a, n) == account[a].kind # "Framework" /\ Wrap(owned + n) > Limit

Exceeds(a, n) == account[a].kind # "Framework" /\ n > Wrap(Limit - owned)

\* acquire() throws and has changed nothing.
Refuses(a, n) ==
    \/ Exceeds(a, n)
    \/ Overflows(bytes[account[a].kind], n)
    \/ Overflows(account[a].bytes, n)

Acquire(a, n) ==
    /\ ~Refuses(a, n)
    /\ bytes' = [bytes EXCEPT ![account[a].kind] = @ + n]
    /\ account' = [account EXCEPT ![a].bytes = @ + n]
    /\ IF account[a].kind = "Framework" THEN UNCHANGED <<owned, peak>>
       ELSE /\ owned' = Wrap(owned + n)
            /\ peak' = Max({peak, owned'})

Release(a, n) ==
    /\ bytes' = [bytes EXCEPT ![account[a].kind] = Wrap(@ - n)]
    /\ owned' = IF account[a].kind = "Framework" THEN owned ELSE Wrap(owned - n)
    /\ account' = [account EXCEPT ![a].bytes = Wrap(@ - n)]
    /\ UNCHANGED peak

Retag(a, k) ==
    /\ IF k = account[a].kind THEN UNCHANGED <<bytes, account>>
       ELSE /\ bytes' = [bytes EXCEPT ![account[a].kind] = Wrap(@ - account[a].bytes),
                                      ![k] = Wrap(@ + account[a].bytes)]
            /\ account' = [account EXCEPT ![a].kind = k]
    /\ UNCHANGED <<owned, peak>>

\* The owner of an account that holds nothing makes a new one.
Renew(a) ==
    /\ account[a].bytes = 0
    /\ account' = [account EXCEPT ![a].kind = FirstKind[a]]
    /\ UNCHANGED <<bytes, owned, peak>>

\* What a well-behaved user of the accounts may do: give back what it has
\* taken, and retag between owned kinds.
BudgetNext ==
    \E a \in Accounts :
        \/ \E n \in Sizes : Acquire(a, n)
        \/ \E n \in 0 .. account[a].bytes : Release(a, n)
        \/ \E k \in OwnedKinds : account[a].kind \in OwnedKinds /\ Retag(a, k)
        \/ Renew(a)

BudgetSpec == BudgetInit /\ [][BudgetNext]_budget

Charged == [a \in Accounts |-> account[a].bytes]
Total(S) == SumFunctionOnSet(Charged, S)
OfKind(k) == {a \in Accounts : account[a].kind = k}

\* The books agree with the accounts, and what is owned never exceeds the
\* limit: limit - owned in acquire() never wraps (ResourceBudget).
Reckoned ==
    /\ owned <= Limit /\ owned <= peak /\ peak <= Limit
    /\ \A k \in Kinds : bytes[k] = Total(OfKind(k))
    /\ owned = Total(UNION {OfKind(k) : k \in OwnedKinds})
=============================================================================
