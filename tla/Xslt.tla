-------------------------------- MODULE Xslt --------------------------------
(***************************************************************************)
(* The stylesheet cache of xslt/xsltStreamSerializer.cpp.  A worker's      *)
(* factory keeps one parsed stylesheet and the write time its file had,    *)
(* and parses the file again when that time is another.  The file belongs  *)
(* to somebody else, who may save it, break it, remove it or put an older  *)
(* one back at any moment, between the factory's two looks at it too.      *)
(***************************************************************************)
EXTENDS Integers, FiniteSets

CONSTANTS
  Texts,      \* what a good stylesheet may say
  MaxTime,    \* bound on the clock of the file system
  MaxEdits,   \* bound on the changes of the file
  MaxRenders, \* bound on the responses rendered
  Null        \* nullptr; no file; a text that is no stylesheet

ASSUME XsltAssumption ==
  /\ MaxTime \in Nat /\ MaxEdits \in Nat /\ MaxRenders \in Nat
  /\ Null \notin Texts

VARIABLES
  now,
  disk,       \* the file: its text and write time, or Missing
  past,       \* every state it has had
  edits,
  sheet,      \* IceSpiderFactory::stylesheet
  writeTime,  \* IceSpiderFactory::stylesheetWriteTime
  newMtime,   \* create()'s local
  pc,         \* "idle", "parse", "apply", or how the last response ended
  since,      \* the texts the file has had since create() was called
  fresh,      \* the file has been as newly saved states only, since then
  renders

vars == <<now, disk, past, edits, sheet, writeTime, newMtime, pc, since, fresh, renders>>

Missing == [text |-> Null, mtime |-> -1]
MinTime == -2

Init ==
  /\ now = 0
  /\ disk \in {Missing} \cup [text : Texts, mtime : {0}]
  /\ past = {disk}
  /\ edits = 0
  /\ sheet = Null /\ writeTime = MinTime
  /\ newMtime = MinTime
  /\ pc = "idle"
  /\ since = {}
  /\ fresh = TRUE
  /\ renders = 0

-----------------------------------------------------------------------------
(* The file's owner.                                                       *)

factoryVars == <<sheet, writeTime, newMtime, pc, renders>>

Tick == now < MaxTime /\ now' = now + 1 /\ UNCHANGED <<disk, past, edits, since, fresh, factoryVars>>

Rendering == pc \in {"parse", "apply"}

Change(d) ==
  /\ edits < MaxEdits /\ edits' = edits + 1
  /\ d # disk /\ disk' = d
  /\ past' = past \cup {d}
  /\ since' = IF Rendering THEN since \cup {d.text} ELSE since
  /\ fresh' = /\ Rendering => fresh
              /\ \A e \in past : e.mtime # d.mtime
  /\ UNCHANGED <<now, factoryVars>>

(* A save: the text good or not, the write time that of the clock. *)
Save == \E t \in Texts \cup {Null} : Change([text |-> t, mtime |-> now])

(* A backup moved back has its own write time. *)
PutBack == \E d \in past : d # Missing /\ Change(d)

Delete == Change(Missing)

-----------------------------------------------------------------------------
(* IceSpiderFactory::create and XsltStreamSerializer::Serialize.           *)

fileVars == <<now, disk, past, edits>>

(* last_write_time throws when there is no file. *)
Create ==
  /\ ~Rendering /\ renders < MaxRenders
  /\ renders' = renders + 1
  /\ IF disk = Missing
     THEN /\ pc' = "noFile"
          /\ UNCHANGED <<newMtime, since>>
     ELSE /\ newMtime' = disk.mtime
          /\ pc' = "parse"
          /\ since' = {disk.text}
  /\ UNCHANGED <<fileVars, fresh, sheet, writeTime>>

(* Mutated form: the time is noted whether or not the sheet loaded. *)
LoadNotesFirst ==
  /\ pc = "parse"
  /\ IF newMtime = writeTime
     THEN pc' = "apply" /\ UNCHANGED <<sheet, writeTime>>
     ELSE /\ sheet' = disk.text
          /\ writeTime' = newMtime
          /\ pc' = IF disk.text = Null THEN "failedToLoad" ELSE "apply"
  /\ UNCHANGED <<fileVars, newMtime, since, fresh, renders>>

(* The old sheet is gone before the new one is known to be good; only a     *)
(* good one's time is noted.  The file is read now, its time was before.    *)
Load ==
  /\ pc = "parse"
  /\ IF newMtime = writeTime
     THEN pc' = "apply" /\ UNCHANGED <<sheet, writeTime>>
     ELSE /\ sheet' = disk.text
          /\ IF disk.text = Null
             THEN pc' = "failedToLoad" /\ UNCHANGED writeTime
             ELSE pc' = "apply" /\ writeTime' = newMtime
  /\ UNCHANGED <<fileVars, newMtime, since, fresh, renders>>

(* xsltApplyStylesheet gives nothing for a null sheet, nor where the sheet  *)
(* itself gives up; what it gives is dumped as HTML or XML and flushed.     *)
Serialize ==
  /\ pc = "apply"
  /\ \/ sheet # Null /\ pc' = "rendered"
     \/ pc' = "failedToApply"
  /\ UNCHANGED <<fileVars, sheet, writeTime, newMtime, since, fresh, renders>>

Next == Tick \/ Save \/ PutBack \/ Delete \/ Create \/ Load \/ Serialize

Spec == Init /\ [][Next]_vars

-----------------------------------------------------------------------------
(* Properties.                                                             *)

(* A stylesheet that has been saved anew is what is applied from the next   *)
(* response on, whatever the file, the cache and failed loads were before:  *)
(* no older sheet, and never the null sheet of a load that failed, though   *)
(* the file is looked at twice and may be saved again in between.  (It is   *)
(* not so of a file put back with the write time it had, or saved twice     *)
(* within one tick of the clock.)                                           *)
SavedIsServed == fresh /\ pc = "apply" => sheet \in since \ {Null}

=============================================================================
