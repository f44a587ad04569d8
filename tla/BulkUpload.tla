----------------------------- MODULE BulkUpload -----------------------------
(***************************************************************************)
(* The import of inventory items from a CSV file: bulk_upload of           *)
(* dead_stock_app/views/items.py, for one file of one shop's owner.        *)
(*                                                                         *)
(* A line of the file, after the header, is empty (the reader skips it),   *)
(* blank (commas only), good, of a category, or bad: one that the          *)
(* serializer refuses.  The categories are read once, before the rows; a   *)
(* row of one is then validated against the table.                         *)
(***************************************************************************)
EXTENDS Naturals, Sequences, FiniteSets

CONSTANTS
  CsvMaxRows,  \* CSV_MAX_ROWS, 500
  FileLimit    \* bound: lines of the file

ASSUME CsvAssumption == CsvMaxRows \in Nat \ {0} /\ FileLimit \in Nat

VARIABLES
  file,      \* the lines after the header
  upload,    \* where the request is, and its local variables
  rowAt,     \* the line that the reader reads next, and the number it gives it
  saved,     \* lines saved in the open transaction
  imported,  \* lines whose item is in the table
  shopThere, \* the shop is in the table
  category   \* the category is in the table

uploadVars == <<file, upload, rowAt, saved, imported, shopThere, category>>

-----------------------------------------------------------------------------
LineKinds == {"empty", "blank", "good", "category", "bad"}

NoUpload == [at |-> "idle", known |-> FALSE, valid |-> {}, errors |-> {}]

BulkInit ==
  /\ file \in UNION {[1 .. n -> LineKinds] : n \in 0 .. FileLimit}
  /\ upload = NoUpload
  /\ rowAt = [line |-> 1, index |-> 2]
  /\ saved = {} /\ imported = {}
  /\ shopThere = TRUE /\ category = TRUE

Lines == DOMAIN file
Rows == {l \in Lines : file[l] \notin {"empty", "blank"}}

UploadTo(label) == upload' = [upload EXCEPT !.at = label]

-----------------------------------------------------------------------------
\* The shop is there, and the file decodes and has the columns; or a 400.
BeginUpload ==
  /\ upload.at = "idle"
  /\ \/ shopThere /\ UploadTo("lookup")
     \/ UploadTo("refused")
  /\ UNCHANGED <<file, rowAt, saved, imported, shopThere, category>>

CategoryLookup ==
  /\ upload.at = "lookup"
  /\ upload' = [upload EXCEPT !.at = "rows", !.known = category]
  /\ UNCHANGED <<file, rowAt, saved, imported, shopThere, category>>

\* Why a row is refused: an unknown category, or what the serializer says.
Faulty(kind) ==
  \/ kind = "bad"
  \/ kind = "category" /\ ~(upload.known /\ category)

\* The turn of the loop.  The number is checked before the row is looked at, so
\* that blank rows count; an empty line has no number.
ReadRow ==
  /\ upload.at = "rows" /\ rowAt.line \in Lines
  /\ LET kind == file[rowAt.line]
     IN IF kind = "empty" THEN UNCHANGED upload
        ELSE IF rowAt.index > CsvMaxRows + 1 THEN UploadTo("refused")
        ELSE IF kind = "blank" THEN UNCHANGED upload
        ELSE IF Faulty(kind)
        THEN upload' = [upload EXCEPT
               !.errors = @ \cup {[line |-> rowAt.line, row |-> rowAt.index]}]
        ELSE upload' = [upload EXCEPT !.valid = @ \cup {rowAt.line}]
  /\ rowAt' = [line |-> rowAt.line + 1,
               index |-> rowAt.index + IF file[rowAt.line] = "empty" THEN 0 ELSE 1]
  /\ UNCHANGED <<file, saved, imported, shopThere, category>>

EndRows ==
  /\ upload.at = "rows" /\ rowAt.line \notin Lines
  /\ UploadTo(IF upload.errors # {} \/ upload.valid = {} THEN "refused" ELSE "saving")
  /\ UNCHANGED <<file, rowAt, saved, imported, shopThere, category>>

\* Mutant: there is no transaction, each row commits.
SaveRowAlone ==
  /\ upload.at = "saving" /\ shopThere
  /\ \E l \in upload.valid \ saved :
       /\ \A k \in upload.valid \ saved : l <= k
       /\ saved' = saved \cup {l}
       /\ imported' = imported \cup {l}
  /\ UNCHANGED <<file, upload, rowAt, shopThere, category>>

SaveRow ==
  /\ upload.at = "saving"
  /\ \E l \in upload.valid \ saved :
       /\ \A k \in upload.valid \ saved : l <= k
       /\ saved' = saved \cup {l}
  /\ UNCHANGED <<file, upload, rowAt, imported, shopThere, category>>

\* The foreign keys are checked as the transaction commits.
CommitRows ==
  /\ upload.at = "saving" /\ saved = upload.valid
  /\ IF shopThere /\ (category \/ \A l \in saved : file[l] # "category")
     THEN imported' = imported \cup saved /\ UploadTo("created")
     ELSE UploadTo("failed") /\ UNCHANGED imported
  /\ saved' = {}
  /\ UNCHANGED <<file, rowAt, shopThere, category>>

LoseUpload ==
  /\ upload.at \in {"lookup", "rows", "saving"}
  /\ UploadTo("failed") /\ saved' = {}
  /\ UNCHANGED <<file, rowAt, imported, shopThere, category>>

\* The items of a category stay without it; those of a shop go with it.
DeleteCategory ==
  /\ category /\ category' = FALSE
  /\ UNCHANGED <<file, upload, rowAt, saved, imported, shopThere>>

DeleteShop ==
  /\ shopThere /\ shopThere' = FALSE /\ imported' = {}
  /\ UNCHANGED <<file, upload, rowAt, saved, category>>

BulkNext ==
  \/ BeginUpload \/ CategoryLookup \/ ReadRow \/ EndRows \/ SaveRow \/ CommitRows
  \/ LoseUpload \/ DeleteCategory \/ DeleteShop

BulkSpec == BulkInit /\ [][BulkNext]_uploadVars

-----------------------------------------------------------------------------
\* A file is imported as a whole or not at all: all its rows have an item, or
\* none has, whatever is deleted meanwhile and wherever the request stops; none
\* has when the owner is answered that it failed or was refused; and never when a
\* row is bad or has a number beyond the limit.  The rows that are reported are
\* the faulty ones under the number an editor shows, unless an empty line is
\* above.
BulkUploadWhole ==
  /\ imported # {} =>
       /\ upload.at = "created" /\ imported = Rows
       /\ \A l \in Rows : file[l] # "bad"
       /\ Cardinality({l \in Lines : file[l] # "empty"}) <= CsvMaxRows
  /\ upload.at = "created" /\ shopThere => imported # {}
  /\ \A e \in upload.errors :
       /\ file[e.line] \in {"bad", "category"}
       /\ e.row = e.line + 1 \/ (\E l \in 1 .. e.line : file[l] = "empty")
=============================================================================
