----------------------------- MODULE Pk11Ciphers -----------------------------
(***************************************************************************)
(* components/library/openssl/openssl-1.0.2/engines/pkcs11/e_pk11.c:       *)
(* pk11_cipher_init and pk11_cipher_cleanup.  A cipher context keeps the   *)
(* PK11_SESSION structure it got in state->sp, and both functions have     *)
(* error paths that give the structure back and leave state->sp as it is.  *)
(* The free list of OP_CIPHER is modelled as the code has it, head and     *)
(* next, since a structure that is returned twice makes it a ring.         *)
(*                                                                         *)
(* One process, whose engine stays initialised.  What is done under the    *)
(* lock of the list is one step; the calls between two such steps are on a *)
(* context and a session of the caller's and are part of the second.       *)
(***************************************************************************)
EXTENDS FiniteSets, Naturals

CONSTANTS Contexts,   \* EVP_CIPHER_CTX, each used by one thread at a time
          Structs,    \* bound: PK11_SESSION structures that can be allocated
          None

VARIABLES head, next,   \* session_cache[OP_CIPHER]
          alloc,        \* structures that are not free
          keyed,        \* those with a key object and a direction
          pc,           \* of a context: "ready" once it was initialised
          sp,           \* the local variable of pk11_cipher_init
          state         \* state->sp

vars == <<head, next, alloc, keyed, pc, sp, state>>
-----------------------------------------------------------------------------
Init ==
    /\ head = None /\ next = [s \in Structs |-> None]
    /\ alloc = {} /\ keyed = {}
    /\ pc = [c \in Contexts |-> "idle"]
    /\ sp = [c \in Contexts |-> None]
    /\ state = [c \in Contexts |-> None]

\* pk11_return_session
Return(s) ==
    /\ next' = [next EXCEPT ![s] = head]
    /\ head' = s

Becomes(c, where) == pc' = [pc EXCEPT ![c] = where]

\* pk11_cipher_cleanup.  C_EncryptFinal may fail, for one because nothing is
\* under way: the structure is given back and stays in state->sp.
Cleanup(c) ==
    /\ pc[c] \in {"idle", "ready"} /\ state[c] # None
    /\ Return(state[c])
    /\ state' \in {state, [state EXCEPT ![c] = None]}
    /\ Becomes(c, "idle")
    /\ UNCHANGED <<alloc, keyed, sp>>

\* pk11_cipher_init begins with the cleanup of what the context still has,
\* whatever comes of it.
CleanupFirst(c) ==
    /\ pc[c] \in {"idle", "ready"}
    /\ IF state[c] = None THEN UNCHANGED <<head, next>> ELSE Return(state[c])
    /\ state' = [state EXCEPT ![c] = None]
    /\ Becomes(c, "get")
    /\ UNCHANGED <<alloc, keyed, sp>>

\* Refused for the length of its key or IV, or no session can be had.
Refused(c) ==
    /\ pc[c] = "get"
    /\ Becomes(c, "idle")
    /\ UNCHANGED <<head, next, alloc, keyed, sp, state>>

\* pk11_get_session
Get(c) ==
    /\ pc[c] = "get"
    /\ \E s \in IF head = None THEN Structs \ alloc ELSE {head} :
          /\ head' = IF head = None THEN None ELSE next[s]
          /\ next' = [next EXCEPT ![s] = None]
          /\ alloc' = alloc \cup {s}
          /\ sp' = [sp EXCEPT ![c] = s]
    /\ Becomes(c, "got")
    /\ UNCHANGED <<keyed, state>>

\* The structure has this key and direction: it is noted in state->sp and used
\* again.  Where C_EncryptInit fails, pk11_init_symmetric gives it back.
InitAgain(c) ==
    /\ pc[c] = "got" /\ sp[c] \in keyed
    /\ state' = [state EXCEPT ![c] = sp[c]]
    /\ \/ Becomes(c, "ready") /\ UNCHANGED <<head, next>>
       \/ Becomes(c, "idle") /\ Return(sp[c])
    /\ sp' = [sp EXCEPT ![c] = None]
    /\ UNCHANGED <<alloc, keyed>>

\* Another key or direction: state->sp is noted last.
InitNew(c) ==
    /\ pc[c] = "got"
    /\ \/ /\ Becomes(c, "ready")
          /\ state' = [state EXCEPT ![c] = sp[c]]
          /\ keyed' = keyed \cup {sp[c]}
          /\ UNCHANGED <<head, next>>
       \/ /\ Becomes(c, "idle")
          /\ keyed' \in {keyed, keyed \ {sp[c]}}
          /\ Return(sp[c])
          /\ UNCHANGED state
    /\ sp' = [sp EXCEPT ![c] = None]
    /\ UNCHANGED alloc

Next ==
    \E c \in Contexts :
       \/ Cleanup(c) \/ CleanupFirst(c) \/ Refused(c)
       \/ Get(c) \/ InitAgain(c) \/ InitNew(c)

Spec == Init /\ [][Next]_vars
-----------------------------------------------------------------------------
\* The structures the list holds, from head along next.
Listed ==
    LET reached[n \in 0 .. Cardinality(Structs)] ==
            IF n = 0 THEN {head}
            ELSE reached[n - 1] \cup {next[s] : s \in reached[n - 1] \ {None}}
    IN  reached[Cardinality(Structs)] \ {None}

\* The comment on pk11_get_session: "The returned PK11_SESSION structure is
\* disconnected from the freelist."  The structure of a context that was
\* initialised is on no list, and no other such context has it.
Disconnected ==
    \A c \in Contexts : pc[c] = "ready" =>
       /\ state[c] \notin Listed
       /\ \A d \in Contexts \ {c} : pc[d] = "ready" => state[d] # state[c]
=============================================================================
