------------------------------- MODULE Credentials -------------------------------
(***************************************************************************)
(* The credential builders (security/credentials.rs) and the memory they   *)
(* handle by hand: PEM strings become CStrings, are turned into raw        *)
(* pointers for core, which copies them, and have to be turned back and    *)
(* freed; a private key has to be overwritten before its memory is given   *)
(* back, wherever its bytes were. A string is "owned" by the builder or    *)
(* "raw"; the server's builder keeps its pairs raw from the start, the     *)
(* channel's builder only while it builds.                                 *)
(***************************************************************************)
EXTENDS Naturals, Sequences, FiniteSets

CONSTANTS MaxCerts   \* bound on the pairs given to a builder

VARIABLES
  cb,       \* the builder: which one, where it is, its root and its pairs
  dirty,    \* how the last step freed buffers with a key in them
  leaked,   \* raw strings nobody will free
  creds     \* the credentials object: "none", "live"

credVars == <<cb, dirty, leaked, creds>>

Builder(kind) == [kind |-> kind, at |-> "open", root |-> "none", pairs |-> <<>>,
                  given |-> 0]
CredInit(kinds) ==
  /\ \E k \in kinds : cb = Builder(k)
  /\ dirty = {} /\ leaked = 0 /\ creds = "none"

RootCert ==
  /\ cb.at = "open"
  /\ cb' = [cb EXCEPT !.root = "owned"]
  /\ dirty' = {}
  /\ UNCHANGED <<leaked, creds>>

(* A key buffer has no spare byte, one, or more.                           *)
Spares == 0..2

(* CString::new on a key needs one spare byte for the final NUL: without   *)
(* it the buffer grows, with more it shrinks; where the allocator moves it *)
(* to do so, the old buffer is freed as it is.                             *)
NewCString(spare, moves) ==
  IF spare = 1 \/ ~moves THEN {} ELSE IF spare = 0 THEN {"grown"} ELSE {"shrunk"}

(* Mutant: the key goes to CString::new as it came.                        *)
KeyCStringDirect(spare, moves) == NewCString(spare, moves)

(* A buffer that is full is copied into one with room, and cleared, first. *)
KeyCString(spare, moves) == NewCString(IF spare = 0 THEN 1 ELSE spare, moves)

AddCert(spare, moves) ==
  /\ cb.kind = "server" /\ cb.at = "open" /\ cb.given < MaxCerts
  /\ cb' = [cb EXCEPT !.pairs = Append(@, "raw"), !.given = @ + 1]
  /\ dirty' = KeyCString(spare, moves)
  /\ UNCHANGED <<leaked, creds>>

(* The channel's builder has one pair; a second call drops the first, and  *)
(* its key as it is.                                                       *)
Cert(spare, moves) ==
  /\ cb.kind = "channel" /\ cb.at = "open" /\ cb.given < MaxCerts
  /\ cb' = [cb EXCEPT !.pairs = <<"owned">>, !.given = @ + 1]
  /\ dirty' = KeyCString(spare, moves) \cup (IF cb.pairs = <<>> THEN {} ELSE {"replaced"})
  /\ UNCHANGED <<leaked, creds>>

(* build: everything core is to read becomes raw ...                       *)
Raw(where) == IF where = "none" THEN "none" ELSE "raw"
IntoRaw ==
  /\ cb.at = "open"
  /\ cb' = [cb EXCEPT !.at = "create", !.root = Raw(@),
                      !.pairs = [i \in DOMAIN @ |-> Raw(@[i])]]
  /\ dirty' = {}
  /\ UNCHANGED <<leaked, creds>>

(* ... core makes the credentials from copies ...                          *)
Create ==
  /\ cb.at = "create"
  /\ cb' = [cb EXCEPT !.at = "reclaim"]
  /\ creds' = "live"
  /\ UNCHANGED <<dirty, leaked>>

(* ... and the strings come back: the root is freed by build_config or     *)
(* given back to the field of the channel's builder, and so is its pair.   *)
Reclaim ==
  /\ cb.at = "reclaim"
  /\ cb' = IF cb.kind = "server"
           THEN [cb EXCEPT !.at = "built", !.root = "none"]
           ELSE [cb EXCEPT !.at = "built", !.root = IF @ = "none" THEN "none" ELSE "owned",
                           !.pairs = [i \in DOMAIN @ |-> "owned"]]
  /\ UNCHANGED <<dirty, leaked, creds>>

(* Drop for both builders, after build or without it: the server's frees   *)
(* the raw pairs, the channel's the pair it owns, each key cleared.        *)
Freed(kind) == IF kind = "server" THEN "raw" ELSE "owned"
DropBuilder ==
  /\ cb.at \in {"open", "built"}
  /\ cb' = [Builder(cb.kind) EXCEPT !.at = "gone"]
  /\ leaked' = leaked + (IF cb.root = "raw" THEN 1 ELSE 0)
                      + Cardinality({i \in DOMAIN cb.pairs : cb.pairs[i] # Freed(cb.kind)})
  /\ dirty' = {}
  /\ UNCHANGED creds

(* Credentials without a builder, or none: core finds them or does not.    *)
GoogleDefaultCredentials ==
  /\ cb = Builder("channel")
  /\ cb' = [cb EXCEPT !.at = "gone"]
  /\ creds' \in {"none", "live"}
  /\ dirty' = {}
  /\ UNCHANGED leaked

(* secure_connect and Binder::bind lend the credentials to core, which     *)
(* counts its own reference, and drop them.                                *)
Release ==
  /\ creds = "live" /\ cb.at = "gone"
  /\ creds' = "none"
  /\ UNCHANGED <<cb, dirty, leaked>>

CredNext ==
  \/ RootCert
  \/ \E spare \in Spares, moves \in BOOLEAN : AddCert(spare, moves) \/ Cert(spare, moves)
  \/ IntoRaw \/ Create \/ Reclaim \/ DropBuilder \/ GoogleDefaultCredentials

(* What a builder was given is given back: no string stays raw for ever,   *)
(* and no buffer is freed with a private key in it, neither the caller's,  *)
(* when it has no room for the NUL, nor the builder's                      *)
(* (security/credentials.rs:153-166, 200-210, 326-332), but for the key of *)
(* the pair that a further call of cert() replaces (line 268) and the      *)
(* buffer of a key that came with more room than it needs, when the        *)
(* allocator moves it to shrink it.                                        *)
SecretsReclaimed ==
  /\ "replaced" \in dirty => cb.kind = "channel" /\ cb.at = "open" /\ cb.given > 1
  /\ dirty \subseteq {"shrunk", "replaced"}
  /\ leaked = 0
=============================================================================
