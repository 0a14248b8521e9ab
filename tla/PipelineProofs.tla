--------------------------- MODULE PipelineProofs ---------------------------
(***************************************************************************)
(* What Pipeline keeps for all programs, whatever their size: the types,   *)
(* what an exit status means, why a process crashes, the dump, and what    *)
(* has been released at exit.                                              *)
(***************************************************************************)
EXTENDS Pipeline, TLAPS

-----------------------------------------------------------------------------
(* Where the process stands, in the order of main.                         *)

BeforeParse == {"log_init", "check_arguments", "open_input", "get_text", "tokens_ctor"}

Dumping == {"calloc_dump", "save_tokens_in_text", "open_dump", "fwrite_dump", "fclose_dump"}

Building == {"alloc_buf", "alloc_exec_memory", "fill_jit_code_buf", "make_buf_executable"}

Leaving == {"tokens_dtor", "log_dtor", "exited"}

(* The calls whose failure does not end the work.                          *)
Passed == {"fclose_dump", "tokens_ctor"}

(* What has failed so far and what the status says of it.                  *)
StatusInv ==
  /\ at \in BeforeParse => failed = {} /\ status = 0 /\ ~ran
  /\ at = "parse_text_for_tokens" => failed \subseteq Passed /\ status = 0 /\ ~ran
  /\ at \in Dumping \cup Building => failed \subseteq Passed /\ status = 0 /\ ~ran
  /\ at = "make_buf_writable" => failed \subseteq Passed \cup {"make_buf_executable"} /\ ~ran
  /\ at = "run_jit_buffer" =>
       /\ failed \subseteq Passed \cup {"make_buf_executable", "make_buf_writable"}
       /\ ~ran
       /\ status = IF "make_buf_writable" \in failed THEN CHANGE_PROTECTION_ERROR ELSE 0
  /\ at \in Leaving /\ ran =>
       /\ failed \subseteq Passed \cup {"make_buf_writable"}
       /\ status = IF "make_buf_writable" \in failed THEN CHANGE_PROTECTION_ERROR ELSE 0
  /\ at \in Leaving /\ ~ran => status \in Errors
  /\ at = "exited" => exit = status

(* Whether the tokens have an array, and need one.                         *)
TokensInv ==
  /\ at \in BeforeParse => "tokens" \notin held
  /\ at = "parse_text_for_tokens" => ("tokens" \in held <=> "tokens_ctor" \notin failed)
  /\ (at \in Dumping \cup Building \cup {"make_buf_writable", "run_jit_buffer"} \/ ran)
       /\ "tokens_ctor" \in failed => program.n_tokens = 0

(* The pages of the buffer as the first mprotect left them.                *)
PagesInv ==
  /\ at \in BeforeParse \cup {"parse_text_for_tokens"} \cup Dumping \cup Building => pages = 0
  /\ at \in {"make_buf_writable", "run_jit_buffer"} =>
       \/ "make_buf_executable" \in failed /\ pages = 0
       \/ "make_buf_executable" \notin failed /\ pages = PagesOf(program.size)

(* From the close of the dump on.                                          *)
DumpInv ==
  at \in Building \cup {"make_buf_writable", "run_jit_buffer", "lost"} \/ ran =>
    /\ "dump" \notin held
    /\ dump = "whole" \/ "fclose_dump" \in failed

(* What the way out has released.                                          *)
ReleaseInv ==
  /\ at = "log_dtor" => "tokens" \notin held
  /\ at # "exited" => status # NO_INPUT_FILE
  /\ at = "exited" => exit = NO_INPUT_FILE \/ {"tokens", "log"} \cap held = {}

IInv == TypeOK /\ StatusInv /\ TokensInv /\ PagesInv /\ DumpInv /\ ReleaseInv /\ CrashesForAReason

-----------------------------------------------------------------------------
(* Every page has 4096 bytes, and the last one need not be full.           *)
LEMMA PagesHoldCode ==
  ASSUME NEW s \in Nat \ {0}
  PROVE  /\ PagesOf(s) \in Nat /\ PagesOf(s) > 0
         /\ s <= PagesOf(s) * PAGE_SIZE
         /\ s % PAGE_SIZE # 0 => s < PagesOf(s) * PAGE_SIZE
BY DEF PagesOf, PAGE_SIZE

(* No error is taken for success, not even by its lowest byte.             *)
LEMMA ErrorsShow == \A error \in Errors : error \in Nat /\ error # 0 /\ error % 256 # 0
BY DEF Errors, NULL_CALLOC, NULL_FILE_PTR, NULL_FWRITE, NO_INPUT_FILE, GET_TEXT_ERROR,
       CHANGE_PROTECTION_ERROR

LEMMA OneMissingArgument ==
  /\ NO_INPUT_FILE \in Errors /\ NO_INPUT_FILE # 0
  /\ \A error \in {NULL_CALLOC, NULL_FILE_PTR, NULL_FWRITE, GET_TEXT_ERROR,
                   CHANGE_PROTECTION_ERROR} : error \in Errors /\ error # NO_INPUT_FILE
BY DEF Errors, NULL_CALLOC, NULL_FILE_PTR, NULL_FWRITE, NO_INPUT_FILE, GET_TEXT_ERROR,
       CHANGE_PROTECTION_ERROR

-----------------------------------------------------------------------------
(* What the assumption says of the program of a state.                     *)
LEMMA ProgramType ==
  ASSUME program \in Programs
  PROVE  /\ program.n_tokens \in Nat
         /\ program.size \in Nat \ {0}
         /\ program.fate \in Fates
BY ProgramsAssumption DEF IsProgram

LEMMA InitIInv == Init => IInv
<1> SUFFICES ASSUME Init PROVE IInv
  OBVIOUS
<1>1. ~ran /\ ran \in BOOLEAN
  BY DEF Init
<1>2. TypeOK
  BY <1>1 DEF Init, TypeOK, Calls
<1>3. at = "log_init" /\ failed = {} /\ status = 0 /\ held = {} /\ pages = 0
  BY DEF Init
<1>4. StatusInv
  BY <1>1, <1>3 DEF StatusInv, BeforeParse, Dumping, Building, Leaving
<1>5. TokensInv /\ PagesInv /\ DumpInv
  BY <1>1, <1>3 DEF TokensInv, PagesInv, DumpInv, Dumping, Building
<1>6. ReleaseInv /\ CrashesForAReason
  BY <1>3, OneMissingArgument DEF ReleaseInv, CrashesForAReason
<1> QED
  BY <1>2, <1>4, <1>5, <1>6 DEF IInv

LEMMA NextIInv == IInv /\ [Next]_vars => IInv'
<1> SUFFICES ASSUME IInv, [Next]_vars PROVE IInv'
  OBVIOUS
<1> USE OneMissingArgument
<1> USE DEF IInv, StatusInv, TokensInv, PagesInv, DumpInv, ReleaseInv, CrashesForAReason, TypeOK,
      Works, Return, Ignore, Fails, Untouched, BeforeParse, Dumping, Building, Leaving, Passed,
      Calls, Ends, Resources, Fates
<1>1. CASE log_init
  BY <1>1 DEF log_init
<1>2. CASE check_arguments
  BY <1>2 DEF check_arguments
<1>3. CASE open_input
  BY <1>3 DEF open_input
<1>4. CASE get_text
  BY <1>4 DEF get_text
<1>5. CASE tokens_ctor
  BY <1>5 DEF tokens_ctor
<1>6. CASE parse_text_for_tokens
  BY <1>6, ProgramType DEF parse_text_for_tokens
<1>7. CASE calloc_dump
  BY <1>7 DEF calloc_dump
<1>8. CASE save_tokens_in_text
  BY <1>8 DEF save_tokens_in_text
<1>9. CASE open_dump
  BY <1>9 DEF open_dump
<1>10. CASE fwrite_dump
  BY <1>10 DEF fwrite_dump
<1>11. CASE fclose_dump
  BY <1>11 DEF fclose_dump
<1>12. CASE alloc_buf
  BY <1>12 DEF alloc_buf
<1>13. CASE alloc_exec_memory
  BY <1>13 DEF alloc_exec_memory
<1>14. CASE fill_jit_code_buf
  BY <1>14 DEF fill_jit_code_buf
<1>15. CASE make_buf_executable
  <2>1. /\ at = "make_buf_executable" /\ at' = "make_buf_writable"
        /\ UNCHANGED << program, argc, held, dump, ran, exit >>
    BY <1>15 DEF make_buf_executable
  <2>2. \/ pages' = PagesOf(program.size) /\ status' = 0 /\ failed' = failed
        \/ /\ pages' = pages /\ status' = CHANGE_PROTECTION_ERROR
           /\ failed' = failed \cup {"make_buf_executable"}
    BY <1>15 DEF make_buf_executable
  <2>3. PagesOf(program.size) \in Nat
    BY ProgramType, PagesHoldCode
  <2>4. TypeOK'
    BY <2>1, <2>2, <2>3
  <2>5. "make_buf_executable" \notin failed /\ pages = 0
    BY <2>1
  <2>6. PagesInv'
    BY <2>1, <2>2, <2>5
  <2> QED
    BY <2>1, <2>2, <2>4, <2>6
<1>16. CASE make_buf_writable
  BY ZenonT(40), <1>16 DEF make_buf_writable
<1>17. CASE run_jit_buffer
  <2>1. /\ at = "run_jit_buffer" /\ at' \in {"crashed", "hangs", "lost", "tokens_dtor"}
        /\ at' = "crashed" => ~CanBegin \/ (program.fate = "returns" /\ ~CanReturn)
        /\ at' = "tokens_dtor" => CanBegin
        /\ UNCHANGED << program, argc, status, held, dump, pages, failed, exit >>
    BY <1>17, ProgramType DEF run_jit_buffer
  <2>2. /\ at' = "tokens_dtor" => ran'
        /\ at' # "tokens_dtor" => ~ran'
        /\ ran' \in BOOLEAN
    BY <1>17 DEF run_jit_buffer
  <2>3. ~CanBegin => "make_buf_executable" \in failed
    BY <2>1, ProgramType, PagesHoldCode DEF CanBegin
  <2>4. ~CanReturn => "make_buf_executable" \in failed \/ program.size % PAGE_SIZE = 0
    BY <2>1, ProgramType, PagesHoldCode DEF CanReturn
  <2>5. TypeOK' /\ TokensInv' /\ PagesInv' /\ ReleaseInv'
    BY <2>1, <2>2
  <2>6. CrashesForAReason'
    BY <2>1, <2>3, <2>4
  <2>7. DumpInv'
    BY <2>1, <2>2
  <2>8. CanBegin => "make_buf_executable" \notin failed
    BY <2>1 DEF CanBegin
  <2>9. StatusInv'
    BY <2>1, <2>2, <2>8
  <2> QED
    BY <2>5, <2>6, <2>7, <2>9
<1>18. CASE tokens_dtor
  BY <1>18 DEF tokens_dtor
<1>19. CASE log_dtor
  BY <1>19 DEF log_dtor
<1>20. CASE Ended \/ UNCHANGED vars
  <2>1. UNCHANGED vars
    BY <1>20 DEF Ended
  <2>2. UNCHANGED ran
    BY <2>1 DEF vars
  <2> QED
    BY <2>1, <2>2 DEF vars
<1> QED
  BY <1>1, <1>2, <1>3, <1>4, <1>5, <1>6, <1>7, <1>8, <1>9, <1>10, <1>11, <1>12, <1>13, <1>14, <1>15, <1>16, <1>17, <1>18, <1>19, <1>20 DEF Next, Parse, Save, Jit

-----------------------------------------------------------------------------
(* Every variable keeps its type.                                          *)
THEOREM TypeCorrect == Spec => []TypeOK
<1>1. IInv => TypeOK
  BY DEF IInv
<1> QED
  BY <1>1, InitIInv, NextIInv, PTL DEF Spec

(* Exit status 0 is what a run that came back and could write its data     *)
(* gives, and nothing else is, whatever failed on the way (main).          *)
THEOREM ExitStatusIsTrue == Spec => []StatusTellsTruth
<1>1. IInv => StatusTellsTruth
  <2> SUFFICES ASSUME IInv, at = "exited" PROVE StatusTellsTruth
    BY DEF StatusTellsTruth
  <2>1. exit = status
    BY DEF IInv, StatusInv
  <2>2. CASE ran
    <3>1. /\ failed \subseteq Passed \cup {"make_buf_writable"}
          /\ status = IF "make_buf_writable" \in failed THEN CHANGE_PROTECTION_ERROR ELSE 0
      BY <2>2 DEF IInv, StatusInv, Leaving
    <3>2. CHANGE_PROTECTION_ERROR % 256 # 0 /\ 0 % 256 = 0
      BY DEF CHANGE_PROTECTION_ERROR
    <3>3. exit % 256 = 0 <=> ran /\ "make_buf_writable" \notin failed
      BY <2>1, <2>2, <3>1, <3>2
    <3>4. "tokens_ctor" \in failed => program.n_tokens = 0
      BY <2>2 DEF IInv, TokensInv
    <3>5. "fclose_dump" \notin failed => dump = "whole"
      BY <2>2 DEF IInv, DumpInv
    <3> QED
      BY <3>1, <3>3, <3>4, <3>5 DEF StatusTellsTruth, Passed
  <2>3. CASE ~ran
    <3>1. status \in Errors
      BY <2>3 DEF IInv, StatusInv, Leaving
    <3>2. exit % 256 # 0
      BY <2>1, <3>1, ErrorsShow
    <3> QED
      BY <2>3, <3>2 DEF StatusTellsTruth
  <2> QED
    BY <2>2, <2>3
<1> QED
  BY <1>1, InitIInv, NextIInv, PTL DEF Spec

(* A process crashes for one of the four reasons only, for code of any     *)
(* size: of the code's sizes only a whole number of pages is one.          *)
THEOREM CrashesExplained == Spec => []CrashesForAReason
<1>1. IInv => CrashesForAReason
  BY DEF IInv
<1> QED
  BY <1>1, InitIInv, NextIInv, PTL DEF Spec

(* The dump is on the disk before the code is entered.                     *)
THEOREM DumpIsThere == Spec => []DumpOutlivesCode
<1>1. IInv => DumpOutlivesCode
  BY DEF IInv, DumpInv, DumpOutlivesCode
<1> QED
  BY <1>1, InitIInv, NextIInv, PTL DEF Spec

(* Every way out but the first releases the tokens and the log.            *)
THEOREM AllReleased == Spec => []ReleasedAtExit
<1>1. IInv => ReleasedAtExit
  BY DEF IInv, ReleaseInv, ReleasedAtExit
<1> QED
  BY <1>1, InitIInv, NextIInv, PTL DEF Spec
=============================================================================
