------------------------------- MODULE Backups -------------------------------
(***************************************************************************)
(* Backups of the database and their restoration: the command line tool    *)
(* (cli/maintenance.py) and DatabaseBackup (storage/backup.py).  A backup  *)
(* is a file named for the second it was begun in, perhaps compressed;     *)
(* what is compressed is first made uncompressed under the same name.      *)
(*                                                                         *)
(* The tool writes in place and looks at what it restores; the library     *)
(* writes beside and renames, and keeps a checksum.  A file is whole, a    *)
(* part, or empty, which a look takes for a database with no tables.       *)
(***************************************************************************)
EXTENDS Integers, FiniteSets

CONSTANTS Jobs,       \* runs of the tool or the library at one time
          LastSecond, Writes, Commands   \* bounds on the clock, on what the
                                         \* application writes, on the runs

ASSUME LastSecondOK == LastSecond \in Nat

VARIABLES second, tool, compress,
          keep,       \* how many backups the library keeps
          app,        \* the application has the database open
          wal,        \* the log holds what the file does not
          db, safety, \* the database's file and the copy made of it
          files,      \* the backups
          side,       \* their checksums: the file they are of
          job, commands,
          clash,      \* two jobs met in one name, or a restoration met another
                      \* one, or an open database, or the log of one killed
          retried,    \* a copy was begun of a database that was half written
          midway      \* the database was begun to be written over

backupVars == <<second, tool, compress, keep, app, wal, db, safety, files, side, job,
                commands, clash, retried, midway>>

Names == 0..LastSecond
Exts == {"raw", "gz"}

None == [form |-> "none", of |-> 0]
File(form, of) == [form |-> form, of |-> of]
Idle == [stage |-> "idle", name |-> 0, ext |-> "raw"]

BackupsInit ==
  /\ second = 0 /\ tool \in {"cli", "library"} /\ compress \in BOOLEAN
  /\ keep \in IF tool = "library" THEN {0, 1, 2 * LastSecond + 2} ELSE {0}
  /\ app = FALSE /\ wal = FALSE
  /\ db = File("whole", 0) /\ safety = None
  /\ files = [n \in Names |-> [ext \in Exts |-> None]]
  /\ side = [n \in Names |-> None]
  /\ job = [j \in Jobs |-> Idle]
  /\ commands = 0 /\ clash = FALSE /\ retried = FALSE /\ midway = FALSE

----------------------------------------------------------------------------
(* The application *)

Application ==
  /\ \/ /\ ~app /\ db.form = "whole" /\ app' = TRUE /\ UNCHANGED <<wal, db>>
     \/ /\ app /\ db.form = "whole" /\ db.of < Writes
        /\ db' = [db EXCEPT !.of = @ + 1] /\ wal' = TRUE /\ UNCHANGED app
     \/ /\ app /\ app' = FALSE /\ wal' = FALSE /\ UNCHANGED db
     \/ /\ app /\ app' = FALSE /\ UNCHANGED <<wal, db>>   \* killed
  /\ UNCHANGED <<second, tool, compress, keep, safety, files, side, job, commands, clash, retried, midway>>

Second ==
  /\ second < LastSecond /\ second' = second + 1
  /\ UNCHANGED <<tool, compress, keep, app, wal, db, safety, files, side, job, commands, clash, retried, midway>>

----------------------------------------------------------------------------
(* What jobs are made of *)

Stage(j, s) == job' = [job EXCEPT ![j].stage = s]
Finish(j) == job' = [job EXCEPT ![j] = Idle]
Has(j, ext) == files[job[j].name][ext].form # "none"
Set(j, ext, f) == files' = [files EXCEPT ![job[j].name][ext] = f]

Take(j, r) ==
  /\ job[j] = Idle /\ commands < Commands
  /\ commands' = commands + 1
  /\ job' = [job EXCEPT ![j] = r]
  /\ clash' = (clash \/ \E i \in Jobs \ {j} : job[i] # Idle /\ job[i].name = r.name)

Fixed == UNCHANGED <<second, tool, compress, keep, app, wal, commands, clash, midway>>

(* backup() *)
Backup(j) ==
  /\ Take(j, [stage |-> "raw", name |-> second, ext |-> IF compress THEN "gz" ELSE "raw"])
  /\ UNCHANGED <<second, tool, compress, keep, app, wal, db, safety, files, side, retried, midway>>

(* SQLite copies the database, with what is in its log.                    *)
Copied(j) ==
  /\ job[j].stage = "raw"
  /\ Set(j, "raw", db)
  /\ Stage(j, IF compress THEN "gz" ELSE "sum")
  /\ Fixed /\ UNCHANGED <<db, safety, side, retried>>

Compressed(j) ==
  /\ job[j].stage = "gz"
  /\ IF Has(j, "raw") THEN Set(j, "gz", files[job[j].name].raw) /\ Stage(j, "unlink")
     ELSE UNCHANGED files /\ Finish(j)
  /\ Fixed /\ UNCHANGED <<db, safety, side, retried>>

Unlinked(j) ==
  /\ job[j].stage = "unlink"
  /\ Set(j, "raw", None)
  /\ Stage(j, "sum")
  /\ Fixed /\ UNCHANGED <<db, safety, side, retried>>

Summed(j) ==
  /\ job[j].stage = "sum"
  /\ IF tool = "library" /\ Has(j, job[j].ext)
     THEN /\ side' = [side EXCEPT ![job[j].name] = files[job[j].name][job[j].ext]]
          /\ Stage(j, "keep")
     ELSE UNCHANGED side /\ Finish(j)
  /\ Fixed /\ UNCHANGED <<db, safety, files, retried>>

NewerThan(n, ext) ==
  Cardinality({f \in Names \X Exts :
                 /\ files[f[1]][f[2]].form # "none"
                 /\ f[1] > n \/ (f[1] = n /\ f[2] = "gz" /\ ext = "raw")})

(* At its end the library removes all but the newest, the one it has just  *)
(* made included; two files of one name share their checksum.              *)
KeepLast(j) ==
  /\ job[j].stage = "keep"
  /\ files' = [n \in Names |-> [ext \in Exts |->
                IF NewerThan(n, ext) >= keep THEN None ELSE files[n][ext]]]
  /\ side' = [n \in Names |-> IF files'[n] = files[n] THEN side[n] ELSE None]
  /\ Finish(j)
  /\ Fixed /\ UNCHANGED <<db, safety, retried>>

(* restore(): the library wants the checksum to be right, if there is one. *)
Restore(j, n, ext) ==
  /\ files[n][ext].form # "none"
  /\ tool = "library" /\ side[n].form # "none" => side[n] = files[n][ext]
  /\ Take(j, [stage |-> IF tool = "library" THEN "replace"
                        ELSE IF ext = "gz" THEN "unzip" ELSE "check",
              name |-> n, ext |-> ext])
  /\ UNCHANGED <<second, tool, compress, keep, app, wal, db, safety, files, side, retried, midway>>

(* The tool uncompresses beside the backup; a part ends in an error and is *)
(* left there.                                                             *)
Unzip(j) ==
  /\ job[j].stage = "unzip"
  /\ IF Has(j, "gz")
     THEN /\ Set(j, "raw", files[job[j].name].gz)
          /\ IF files[job[j].name].gz.form = "part" THEN Finish(j) ELSE Stage(j, "check")
     ELSE UNCHANGED files /\ Finish(j)
  /\ Fixed /\ UNCHANGED <<db, safety, side, retried>>

\* Slip: nobody looks.
SoundAlways(f) == f.form # "none"

(* PRAGMA integrity_check                                                  *)
Sound(f) == f.form \in {"whole", "empty"}

Drop(j) == IF job[j].ext = "gz" THEN Set(j, "raw", None) ELSE UNCHANGED files

Check(j) ==
  /\ job[j].stage = "check"
  /\ IF Sound(files[job[j].name].raw) THEN Stage(j, "safety") /\ UNCHANGED files
     ELSE Finish(j) /\ Drop(j)
  /\ Fixed /\ UNCHANGED <<db, safety, side, retried>>

(* What a restored file is worth with a log of another one beside it, or   *)
(* in the hands of an application that has the old one open.               *)
Placed(f) == IF app \/ wal THEN File("part", f.of) ELSE f
Restoring == {"saving", "copy", "copying"}
Meets == clash' = (clash \/ app \/ wal)
Same == UNCHANGED <<second, tool, compress, keep, app, wal, commands, safety, side, retried>>

(* The copy of the database is written over the last one, whatever that is *)
(* still good for; all restorations share its name.                        *)
SafetyCopy(j) ==
  /\ job[j].stage = "safety"
  /\ safety' = File("part", db.of)
  /\ retried' = (retried \/ db.form = "part")
  /\ Stage(j, "saving")
  /\ clash' = (clash \/ app \/ wal \/ \E i \in Jobs \ {j} : job[i].stage \in Restoring)
  /\ UNCHANGED <<second, tool, compress, keep, app, wal, commands, db, files, side, midway>>

(* It is of the file alone, without the log, and torn if that was written. *)
SafetyCopied(j) ==
  /\ job[j].stage = "saving"
  /\ safety' = IF wal \/ db.of # safety.of THEN File("part", db.of) ELSE db
  /\ clash' = (clash \/ app \/ wal \/ db.of # safety.of)
  /\ Stage(j, "copy")
  /\ UNCHANGED <<second, tool, compress, keep, app, wal, commands, db, files, side, retried, midway>>

(* The copy over the database begins, unless the file is gone ...          *)
Overwrite(j) ==
  /\ job[j].stage = "copy"
  /\ IF Has(j, "raw") THEN db' = File("part", db.of) /\ midway' = TRUE /\ Stage(j, "copying")
     ELSE UNCHANGED <<db, midway>> /\ Finish(j)
  /\ Meets /\ Same /\ UNCHANGED files

(* ... and ends.                                                           *)
Overwritten(j) ==
  /\ job[j].stage = "copying"
  /\ db' = Placed(files[job[j].name].raw)
  /\ midway' = FALSE
  /\ Drop(j) /\ Finish(j) /\ Meets /\ Same

(* The library renames: a file that is gone, or on another device, is an   *)
(* error.                                                                  *)
Replace(j) ==
  /\ job[j].stage = "replace"
  /\ \/ Has(j, job[j].ext) /\ db' = Placed(files[job[j].name][job[j].ext]) /\ Meets
     \/ UNCHANGED <<db, clash>>
  /\ Finish(j) /\ Same /\ UNCHANGED <<files, midway>>

(* A job dies: the tool leaves what it was writing as far as it got.       *)
JobDies(j, form) ==
  /\ job[j] # Idle
  /\ IF tool = "cli" /\ job[j].stage \in {"raw", "gz", "unzip"}
     THEN Set(j, IF job[j].stage = "gz" THEN "gz" ELSE "raw", File(form, 0))
     ELSE UNCHANGED files
  /\ safety' = IF job[j].stage = "saving" THEN File(form, 0) ELSE safety
  /\ Finish(j)
  /\ Fixed /\ UNCHANGED <<db, side, retried>>

(* Rotation removes files one by one, however young: the days are given.   *)
Rotate(n, ext) ==
  /\ n < second /\ files[n][ext].form # "none"
  /\ files' = [files EXCEPT ![n][ext] = None]
  /\ side' = [side EXCEPT ![n] = None]
  /\ clash' = (clash \/ \E i \in Jobs : job[i].stage = "copying" /\ job[i].name = n)
  /\ UNCHANGED <<second, tool, compress, keep, app, wal, db, safety, job, commands, retried, midway>>

BackupsNext ==
  \/ Application \/ Second
  \/ \E n \in Names, ext \in Exts :
       Rotate(n, ext) \/ \E j \in Jobs : Restore(j, n, ext)
  \/ \E j \in Jobs :
       \/ Backup(j) \/ Copied(j) \/ Compressed(j) \/ Unlinked(j) \/ Summed(j) \/ KeepLast(j)
       \/ Unzip(j) \/ Check(j) \/ SafetyCopy(j) \/ SafetyCopied(j)
       \/ Overwrite(j) \/ Overwritten(j) \/ Replace(j) \/ \E form \in {"empty", "part"} : JobDies(j, form)

BackupsSpec == BackupsInit /\ [][BackupsNext]_backupVars

----------------------------------------------------------------------------
(* Properties *)

(* Whatever backups and restorations died before, in the middle of a file, *)
(* a restoration that had its backup and the database to itself leaves a   *)
(* whole database, or one with no tables; while it writes, and if it dies  *)
(* at that, the copy it made is sound, until a restoration after it begins *)
(* to write a copy of the half of a database over it.                      *)
RestoredWhole ==
  ~clash /\ ~retried /\ db.form = "part" =>
    midway /\ Sound(safety)

(* "Make safety copy of current DB" (maintenance.py:484): the database or  *)
(* its copy is sound, also when a restoration that died is run again.      *)
CopyIsSafe == ~clash => db.form # "part" \/ Sound(safety)
=============================================================================
