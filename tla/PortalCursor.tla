------------------------------ MODULE PortalCursor ------------------------------
(***************************************************************************)
(* pump-listener.ts in hot mode: a client follows the stream of a source   *)
(* that may fork.  The client keeps a cursor, the hash of the block before *)
(* it and a bounded memory of headers; a request whose parent hash the     *)
(* source no longer has is answered by 409 and the source's last blocks,   *)
(* and the client goes back to the newest one it knows.                    *)
(*                                                                         *)
(* A block is the set of token creations in it and a chain a sequence of   *)
(* blocks, so that the hash of a block is the chain up to it.  Ranges      *)
(* (--to, --probe), decoding and the pauses between requests are left out. *)
(***************************************************************************)
EXTENDS Integers, Sequences, SequencesExt

CONSTANTS
    Creation,      \* token creations
    MaxChain,      \* bound: blocks of a chain
    MaxForks,      \* bound: forks
    Headers,       \* capacity of the header memory (512)
    Told,          \* blocks a 409 lists
    Rewind,        \* REORG_REWIND
    From,          \* the first block read
    NoHash,        \* parentBlockHash is undefined
    NoStream       \* no response is being read

ASSUME PortalAssumption ==
    /\ {MaxChain, MaxForks} \subseteq Nat
    /\ {Headers, Told, Rewind, From} \subseteq Nat \ {0}

Chain == {c \in UNION {[1..n -> {{}} \cup {{x} : x \in Creation}] : n \in 0..MaxChain} :
            \A i, j \in DOMAIN c : i # j => c[i] \cap c[j] = {}}
ASSUME NoChainAssumption == NoHash \notin Chain /\ NoStream \notin Chain

VARIABLES
    chain,     \* the source's chain
    forks,
    stream,    \* the chain a response is streamed from
    cursor,
    parent,    \* parentBlockHash
    headers,   \* remembered hashes, in the order of their first insertion
    reported   \* creations passed to onToken

portalVars == <<chain, forks, stream, cursor, parent, headers, reported>>

PLTypeOK ==
    /\ chain \in Chain
    /\ forks \in 0..MaxForks
    /\ stream \in Chain \cup {NoStream}
    /\ cursor \in Nat \ {0}
    /\ parent \in Chain \cup {NoHash}
    /\ headers \in Seq(Chain) /\ Len(headers) <= Headers
    /\ reported \subseteq Creation

PLInit ==
    /\ chain = <<>> /\ forks = 0 /\ stream = NoStream
    /\ cursor = From /\ parent = NoHash
    /\ headers = <<>> /\ reported = {}

-----------------------------------------------------------------------------
(* The source *)

Hash(c, n) == SubSeq(c, 1, n)
On(hash, c) == Len(hash) <= Len(c) /\ Hash(c, Len(hash)) = hash

Extend ==
    /\ \E b \in {{}} \cup {{x} : x \in Creation} : chain' = Append(chain, b)
    /\ chain' \in Chain
    /\ UNCHANGED <<forks, stream, cursor, parent, headers, reported>>

\* What the client relies on: no fork drops more than Rewind blocks.
Shallow(n) == n >= Len(chain) - Rewind

\* Another branch that is as long.
Fork ==
    /\ forks < MaxForks
    /\ \E c \in Chain, n \in 0..(Len(chain) - 1) :
        /\ Len(c) = Len(chain) /\ Hash(c, n) = Hash(chain, n)
        /\ c[n + 1] # chain[n + 1]
        /\ Shallow(n)
        /\ chain' = c
    /\ forks' = forks + 1
    /\ UNCHANGED <<stream, cursor, parent, headers, reported>>

-----------------------------------------------------------------------------
(* The client *)

Numbered(n) == {i \in DOMAIN headers : Len(headers[i]) = n}

\* Slip: nothing is forgotten.
RememberedForever(hash) ==
    IF Numbered(Len(hash)) # {}
    THEN [i \in DOMAIN headers |-> IF i \in Numbered(Len(hash)) THEN hash ELSE headers[i]]
    ELSE Append(headers, hash)

\* A number that is set again keeps its place; the oldest is forgotten.
Remembered(hash) ==
    IF Numbered(Len(hash)) # {}
    THEN [i \in DOMAIN headers |-> IF i \in Numbered(Len(hash)) THEN hash ELSE headers[i]]
    ELSE IF Len(headers) < Headers THEN Append(headers, hash)
    ELSE Append(Tail(headers), hash)

\* The numbers up to n keep their order.
RemovedAfter(n) ==
    LET kept[i \in 0..Len(headers)] ==
            IF i = 0 THEN <<>>
            ELSE IF Len(headers[i]) <= n THEN Append(kept[i - 1], headers[i])
            ELSE kept[i - 1]
    IN kept[Len(headers)]

\* The source lists its last blocks before the cursor, the newest first.
Previous == {Hash(chain, n) : n \in {i \in 1..(cursor - 1) : i >= cursor - Told}}

Known == Previous \cap Range(headers)
Newest(hashes) == CHOOSE h \in hashes : \A g \in hashes : Len(g) <= Len(h)

\* Slip: the rewind forgets the first block it should read again.
RewoundShort == IF cursor > Rewind THEN cursor - Rewind + 1 ELSE 1

Rewound == IF cursor > Rewind THEN cursor - Rewind ELSE 1

\* 204, or the client's block may still be ahead of the source: nothing new.
HasData == Len(chain) >= cursor

Request ==
    /\ stream = NoStream /\ HasData
    /\ parent # NoHash => On(parent, chain)
    /\ stream' = chain
    /\ UNCHANGED <<chain, forks, cursor, parent, headers, reported>>

\* 409.  Without a known block the headers are kept, whatever their fork is.
Conflict ==
    /\ stream = NoStream /\ HasData
    /\ parent # NoHash /\ ~On(parent, chain)
    /\ IF Known # {}
       THEN LET common == Newest(Known) IN
            /\ cursor' = Len(common) + 1
            /\ parent' = common
            /\ headers' = RemovedAfter(Len(common))
       ELSE /\ cursor' = Rewound
            /\ parent' = NoHash
            /\ UNCHANGED headers
    /\ UNCHANGED <<chain, forks, stream, reported>>

\* A line of the response: blocks without creations may be left out of it.
Block ==
    /\ stream # NoStream
    /\ \E n \in cursor..Len(stream) :
        /\ \A i \in cursor..(n - 1) : stream[i] = {}
        /\ reported' = reported \cup stream[n]
        /\ headers' = Remembered(Hash(stream, n))
        /\ cursor' = n + 1
        /\ parent' = Hash(stream, n)
    /\ UNCHANGED <<chain, forks, stream>>

\* The end of the batch, a time-out or a broken connection.
EndOfStream ==
    /\ stream # NoStream
    /\ stream' = NoStream
    /\ UNCHANGED <<chain, forks, cursor, parent, headers, reported>>

PLNext == Extend \/ Fork \/ Request \/ Conflict \/ Block \/ EndOfStream

PLSpec == PLInit /\ [][PLNext]_portalVars

-----------------------------------------------------------------------------
(* Properties *)

\* "This file rewinds and deduplicates canonical replay": when the client
\* stands on the source's chain it has reported every creation of that chain
\* behind its cursor, after any forks in the middle of responses and whatever
\* the header memory has forgotten.
NothingMissed ==
    parent # NoHash /\ On(parent, chain) =>
        \A n \in From..(cursor - 1) : chain[n] \subseteq reported
=============================================================================
