------------------------------- MODULE Spork -------------------------------
(***************************************************************************)
(* CSporkManager (spork.cpp) and its database: switches of the network     *)
(* that are signed with one key and spread as messages.                    *)
(*                                                                         *)
(* The message thread handles one "spork" at a time, in three stretches:   *)
(* the test under cs, the assignment under cs, the write to the database.  *)
(* An RPC thread may run UpdateSpork between them, on a node that has the  *)
(* key, and the node may be killed between any two.  A message may come    *)
(* late, again, or in another order than it was signed.                    *)
(* Left out: relaying, the answer to getsporks, the list of all messages   *)
(* (mapSporks) and the penalty of the sender.  A signature is valid or not *)
(* (either key, either message version).                                   *)
(***************************************************************************)
EXTENDS Integers

CONSTANTS SporkIDs,
          Sporks,        \* messages: [nSporkID, nTimeSigned, nValue, fValidSig]
          defaultValue,  \* of sporkDefs
          AdjustedTime,  \* the clock; it does not move while sporks are looked at
          None

FutureLimit == 2   \* 2 * 60 * 60, in hours

ASSUME SporkAssumption ==
    /\ Sporks \subseteq [nSporkID : SporkIDs, nTimeSigned : Nat, nValue : Nat, fValidSig : BOOLEAN]
    /\ defaultValue \in [SporkIDs -> Nat]
    /\ AdjustedTime \in Nat
    /\ None \notin Sporks

VARIABLES mapSporksActive,  \* of an id: None or the active message
          pSporkDB,         \* the same on disk
          handler,          \* what the message thread is doing with which message
          fMasterKey        \* the node has the spork key

sporkVars == <<mapSporksActive, pSporkDB, handler, fMasterKey>>

Waiting == [at |-> "waiting", spork |-> None]

SporkInit ==
    /\ pSporkDB = [id \in SporkIDs |-> None]
    /\ mapSporksActive = pSporkDB
    /\ handler = Waiting
    /\ fMasterKey \in BOOLEAN

-----------------------------------------------------------------------------
\* Mutant: any other message than the active one is newer.
NewerAny(spork) == mapSporksActive[spork.nSporkID] # spork

\* The active spork was not signed more recently than this one.
Newer(spork) ==
    LET active == mapSporksActive[spork.nSporkID]
    IN  active # None => active.nTimeSigned < spork.nTimeSigned

\* ProcessSpork up to the signature: a message that fails a test is dropped.
Receive(spork) ==
    /\ handler = Waiting
    /\ spork.nTimeSigned <= AdjustedTime + FutureLimit
    /\ Newer(spork)
    /\ spork.fValidSig
    /\ handler' = [at |-> "assign", spork |-> spork]
    /\ UNCHANGED <<mapSporksActive, pSporkDB, fMasterKey>>

Assign ==
    /\ handler.at = "assign"
    /\ mapSporksActive' = [mapSporksActive EXCEPT ![handler.spork.nSporkID] = handler.spork]
    /\ handler' = [handler EXCEPT !.at = "write"]
    /\ UNCHANGED <<pSporkDB, fMasterKey>>

WriteSpork ==
    /\ handler.at = "write"
    /\ pSporkDB' = [pSporkDB EXCEPT ![handler.spork.nSporkID] = handler.spork]
    /\ handler' = Waiting
    /\ UNCHANGED <<mapSporksActive, fMasterKey>>

\* UpdateSpork: signed with the clock of now, active at once, not written.
UpdateSpork(spork) ==
    /\ fMasterKey /\ spork.fValidSig /\ spork.nTimeSigned = AdjustedTime
    /\ mapSporksActive[spork.nSporkID] # spork
    /\ mapSporksActive' = [mapSporksActive EXCEPT ![spork.nSporkID] = spork]
    /\ UNCHANGED <<pSporkDB, handler, fMasterKey>>

\* The node is killed and starts again: LoadSporksFromDB.
LoadSporksFromDB ==
    /\ mapSporksActive' = pSporkDB
    /\ handler' = Waiting
    /\ UNCHANGED <<pSporkDB, fMasterKey>>

GetSporkValue(id) ==
    IF mapSporksActive[id] = None THEN defaultValue[id] ELSE mapSporksActive[id].nValue

IsSporkActive(id) == GetSporkValue(id) < AdjustedTime

SporkStep ==
    \/ \E spork \in Sporks : Receive(spork) \/ UpdateSpork(spork)
    \/ Assign
    \/ WriteSpork

\* The sporks alone.
SporkSpec == SporkInit /\ [][SporkStep \/ LoadSporksFromDB]_sporkVars

-----------------------------------------------------------------------------
TimeSigned(spork) == IF spork = None THEN -1 ELSE spork.nTimeSigned

(* On a node without the spork key a switch of the network never goes back *)
(* to an older message, whatever the order, the repetition and the sender  *)
(* of messages, and across restarts: only a kill between the assignment    *)
(* and the write (spork.cpp:160 and 165) gives up the one message at hand. *)
(* With the key, UpdateSpork can break this in two ways, between the test  *)
(* and the assignment and by a restart.                                    *)
SporkNeverOlder ==
    [][~fMasterKey /\ handler.at # "write" =>
         \A id \in SporkIDs : TimeSigned(mapSporksActive[id]) <= TimeSigned(mapSporksActive'[id])]_sporkVars

=============================================================================
