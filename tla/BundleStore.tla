------------------------------ MODULE BundleStore ------------------------------
(***************************************************************************)
(* The tutor's signing key and its sealed bundles: trusted_bundles.py as   *)
(* _publish_assignment (orchestrator.py) uses it.                          *)
(*                                                                         *)
(* Processes that publish the same assignment share three files: the key,  *)
(* its public part and the assignment's envelope. Each is created with     *)
(* O_EXCL, written, flushed and synced, and removed again when that fails; *)
(* a process may be killed between any two of these steps. A file holds a  *)
(* key, the key whose public part it is, or the key that signed it; paths, *)
(* modes, owners and digests only refuse, and the bundle of an assignment  *)
(* never changes.                                                          *)
(***************************************************************************)
EXTENDS Integers

CONSTANTS
  Publisher,    \* processes
  MaxRuns,      \* bound: publications tried by each
  MaxIOErrors   \* bound: writes or syncs that fail

ASSUME BundleAssumption == MaxRuns \in Nat \ {0} /\ MaxIOErrors \in Nat

File == {"key", "pub", "envelope"}
Key == Publisher \X (1..MaxRuns)   \* generated in a run of a process
NoKey == <<>>
Absent == <<"absent">>
Partial == <<"partial">>

VARIABLES
  file,       \* [File -> its content]
  publisher,  \* [Publisher -> [file, op, key, manifest, run, sealed]]
  published,  \* keys that signed a manifest of the assignment
  ioErrors
bundleVars == <<file, publisher, published, ioErrors>>

BundleTypeOK ==
  /\ file \in [File -> {Absent, Partial} \cup Key]
  /\ publisher \in [Publisher -> [file : File, key : Key \cup {NoKey}, run : 0..MaxRuns,
                                  sealed : BOOLEAN, manifest : Key \cup {NoKey},
                                  op : {"idle", "look", "create", "write", "sync", "read", "sign"}]]
  /\ published \subseteq Key /\ ioErrors \in 0..MaxIOErrors

AtRest(run) == [file |-> "key", op |-> "idle", key |-> NoKey, run |-> run, sealed |-> FALSE,
                manifest |-> NoKey]
BundleInit ==
  /\ file = [f \in File |-> Absent] /\ publisher = [p \in Publisher |-> AtRest(0)]
  /\ published = {} /\ ioErrors = 0

Doing(p, f, op) == publisher[p].file = f /\ publisher[p].op = op
Goes(p, f, op) == publisher' = [publisher EXCEPT ![p].file = f, ![p].op = op]
Ends(p) == publisher' = [publisher EXCEPT ![p] = AtRest(publisher[p].run)]

\* What p writes to f: a key of its own making, or what its key gives.
Payload(p, f) == IF f = "key" THEN <<p, publisher[p].run>> ELSE publisher[p].key

-----------------------------------------------------------------------------

\* The caller hands over the assignment's row, with its manifest if it has one.
BeginPublication(p) ==
  /\ publisher[p].op = "idle" /\ publisher[p].run < MaxRuns
  /\ \E k \in IF published = {} THEN {NoKey} ELSE published :
       publisher' = [publisher EXCEPT ![p].op = "look", ![p].run = @ + 1, ![p].manifest = k]
  /\ UNCHANGED <<file, published, ioErrors>>

\* exists, before _write_once_private
LookFor(p, f) ==
  /\ Doing(p, f, "look") /\ Goes(p, f, IF file[f] = Absent THEN "create" ELSE "read")
  /\ UNCHANGED <<file, published, ioErrors>>

\* Mutant: without O_EXCL.
CreateFileAnew(p, f) ==
  /\ Doing(p, f, "create") /\ Goes(p, f, "write")
  /\ file' = [file EXCEPT ![f] = Partial]
  /\ UNCHANGED <<published, ioErrors>>
\* os.open with O_CREAT | O_EXCL; a file that is there by now is left alone.
CreateFile(p, f) ==
  /\ Doing(p, f, "create")
  /\ IF file[f] = Absent THEN file' = [file EXCEPT ![f] = Partial] /\ Goes(p, f, "write")
                         ELSE Goes(p, f, "read") /\ UNCHANGED file
  /\ UNCHANGED <<published, ioErrors>>

WriteFile(p, f) ==
  /\ Doing(p, f, "write") /\ Goes(p, f, "sync")
  /\ file' = [file EXCEPT ![f] = Payload(p, f)]
  /\ UNCHANGED <<published, ioErrors>>

SyncFile(p, f) ==
  /\ Doing(p, f, "sync") /\ Goes(p, f, "read")
  /\ UNCHANGED <<file, published, ioErrors>>

IOFails(p, f) ==
  /\ Doing(p, f, "write") \/ Doing(p, f, "sync")
  /\ ioErrors < MaxIOErrors /\ ioErrors' = ioErrors + 1
  /\ file' = [file EXCEPT ![f] = Absent] /\ Ends(p)
  /\ UNCHANGED published

\* _read_private_bytes returns a whole key: the file is there and not cut short.
HoldsKey(f) == file[f] \in Key

\* _key_pair: the key is used as it is stored, and the public part must be its own.
ReadKey(p) ==
  /\ Doing(p, "key", "read")
  /\ IF HoldsKey("key")
     THEN publisher' = [publisher EXCEPT ![p].key = file["key"], ![p].file = "pub", ![p].op = "look"]
     ELSE Ends(p)
  /\ UNCHANGED <<file, published, ioErrors>>

ReadPublicKey(p) ==
  /\ Doing(p, "pub", "read")
  /\ IF file["pub"] = publisher[p].key
     THEN Goes(p, "envelope", IF publisher[p].sealed THEN "sign" ELSE "look") ELSE Ends(p)
  /\ UNCHANGED <<file, published, ioErrors>>

\* load: the pair is read again, and the envelope must verify with it. Then
\* public_manifest goes through the pair once more.
ReadEnvelope(p) ==
  /\ Doing(p, "envelope", "read")
  /\ IF HoldsKey("key") /\ file["pub"] = file["key"] /\ file["envelope"] = file["pub"]
     THEN publisher' = [publisher EXCEPT ![p].file = "key", ![p].op = "look", ![p].sealed = TRUE]
     ELSE Ends(p)
  /\ UNCHANGED <<file, published, ioErrors>>

\* Without a stored manifest one is signed with the key that was read, and stored;
\* the branch is published.
SignManifest(p) ==
  /\ Doing(p, "envelope", "sign") /\ publisher[p].manifest = NoKey /\ Ends(p)
  /\ published' = published \cup {publisher[p].key}
  /\ UNCHANGED <<file, ioErrors>>

\* A stored one is published again if it verifies with the key pair of now.
VerifyManifest(p) ==
  /\ Doing(p, "envelope", "sign") /\ publisher[p].manifest # NoKey /\ Ends(p)
  /\ published' = published \cup ({publisher[p].manifest} \cap {publisher[p].key})
  /\ UNCHANGED <<file, ioErrors>>

KillPublisher(p) ==
  /\ publisher[p].op # "idle" /\ Ends(p)
  /\ UNCHANGED <<file, published, ioErrors>>

BundleNext ==
  \E p \in Publisher :
    \/ BeginPublication(p) \/ ReadKey(p) \/ ReadPublicKey(p) \/ ReadEnvelope(p)
    \/ SignManifest(p) \/ VerifyManifest(p) \/ KillPublisher(p)
    \/ \E f \in File : \/ LookFor(p, f) \/ CreateFile(p, f) \/ WriteFile(p, f) \/ SyncFile(p, f)
                       \/ IOFails(p, f)
BundleSpec == BundleInit /\ [][BundleNext]_bundleVars

-----------------------------------------------------------------------------
(* Properties *)

\* Two processes that publish at once, one of them killed or failing at any step,
\* never leave the tutor with signatures of a key other than the one whose public
\* part evaluators are given: envelope and manifests verify with signing.pub for
\* as long as it is there, and a manifest is only out when it had been.
SignaturesVerify ==
  /\ file["pub"] \in Key => /\ published \subseteq {file["pub"]}
                            /\ file["envelope"] \in {Absent, Partial, file["pub"]}
  /\ \A k, l \in published : k = l
=============================================================================
