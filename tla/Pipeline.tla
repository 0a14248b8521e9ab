------------------------------ MODULE Pipeline ------------------------------
(***************************************************************************)
(* main and the calls it makes of the system: the log, the argument, the   *)
(* input, the token array, the dump, the two buffers, their protection,    *)
(* and the jump into the buffer.  Each call may fail, and the code looks   *)
(* at some of the results.  A step is one such call with what is done      *)
(* about its result.                                                       *)
(*                                                                         *)
(* What happens between the calls is what TokenStream, IRDump, Translator  *)
(* and JitRun describe; a program stands here for what it makes of them.   *)
(***************************************************************************)
EXTENDS Integers

CONSTANTS Programs

Fates == {"returns", "loops", "wild"}

(* n_tokens and size as the parser and fill_jit_code_buf leave them, and   *)
(* whether the loop of the dump ends, the search of the translation ends,  *)
(* and the code comes back.                                                *)
IsProgram(p) ==
  /\ p.n_tokens \in Nat
  /\ p.size \in Nat \ {0}
  /\ p.dump_ends \in BOOLEAN
  /\ p.fill_ends \in BOOLEAN
  /\ p.fate \in Fates

ASSUME ProgramsAssumption == \A p \in Programs : IsProgram(p)

VARIABLES
  program,
  argc,
  at,        \* the call to come, or how the process ended
  status,    \* execution_status, exec_status
  held,      \* what was allocated or opened and not released
  dump,      \* the file IR.dump
  pages,     \* pages of the buffer, from its first, that may be executed
  failed,    \* history: the calls that failed
  ran,       \* history: the code returned
  exit       \* what main returns

vars == << program, argc, at, status, held, dump, pages, failed, ran, exit >>

PAGE_SIZE == 4096

NULL_CALLOC             == \hCA110C
NULL_FILE_PTR           == \hF11E
NULL_FWRITE             == \hBADF44
NO_INPUT_FILE           == \hBADF11E
GET_TEXT_ERROR          == \hBAD61
CHANGE_PROTECTION_ERROR == \hBAD9301

Errors == {NULL_CALLOC, NULL_FILE_PTR, NULL_FWRITE, NO_INPUT_FILE, GET_TEXT_ERROR,
           CHANGE_PROTECTION_ERROR}

Calls == {"log_init", "check_arguments", "open_input", "get_text", "tokens_ctor",
          "parse_text_for_tokens", "calloc_dump", "save_tokens_in_text", "open_dump",
          "fwrite_dump", "fclose_dump", "alloc_buf", "alloc_exec_memory", "fill_jit_code_buf",
          "make_buf_executable", "make_buf_writable", "run_jit_buffer", "tokens_dtor", "log_dtor"}

(* A process that is lost does what undefined code does.                   *)
Ends == {"exited", "crashed", "hangs", "lost"}

Resources == {"log", "input", "text", "tokens", "dump_text", "dump", "buf", "exec_memory"}

Init ==
  /\ program \in Programs
  /\ argc \in {1, 2}
  /\ at = "log_init"
  /\ status = 0 /\ exit = 0
  /\ held = {} /\ failed = {}
  /\ dump = "old"
  /\ pages = 0
  /\ ran = FALSE

-----------------------------------------------------------------------------
Untouched == UNCHANGED << program, argc, dump, pages, ran >>

(* The call of this step works, and holds something from then on.          *)
Works(next, resources) ==
  /\ at' = next
  /\ held' = held \cup resources
  /\ UNCHANGED << status, failed, exit >>

Fails(next) == at' = next /\ failed' = failed \cup {at} /\ UNCHANGED << held, exit >>

(* Mutants: the status is forgotten, or kept in a byte; nothing is         *)
(* released.                                                               *)
ReturnZero(error) == Fails("tokens_dtor") /\ UNCHANGED status
ReturnByte(error) == Fails("tokens_dtor") /\ status' = error % 256
ExitWith(error) ==
  /\ at' = "exited" /\ failed' = failed \cup {at}
  /\ status' = error /\ exit' = error /\ UNCHANGED held

(* The error is returned to main, which goes to terminate_process.         *)
Return(error) == Fails("tokens_dtor") /\ status' = error

(* Nobody looks at the result.                                             *)
Ignore(next) == Fails(next) /\ UNCHANGED status

(* setvbuf takes a log that could not be opened; its own failure does not  *)
(* matter to anyone.                                                       *)
log_init ==
  /\ at = "log_init"
  /\ Works("check_arguments", {"log"}) \/ Ignore("crashed")
  /\ Untouched

(* No flag changes the status.  Without an argument main returns at once.  *)
check_arguments ==
  /\ at = "check_arguments"
  /\ \/ argc > 1 /\ Works("open_input", {})
     \/ /\ argc = 1
        /\ at' = "exited" /\ failed' = failed \cup {at}
        /\ status' = NO_INPUT_FILE /\ exit' = NO_INPUT_FILE
        /\ UNCHANGED held
  /\ Untouched

(* The input file is never closed, the text never released.                *)
open_input ==
  /\ at = "open_input"
  /\ Works("get_text", {"input"}) \/ Return(NULL_FILE_PTR)
  /\ Untouched

(* stat or calloc fails, or there is nothing in the file, which is found   *)
(* out after the text was allocated.                                       *)
get_text ==
  /\ at = "get_text"
  /\ \/ Works("tokens_ctor", {"text"})
     \/ Return(GET_TEXT_ERROR)
     \/ /\ at' = "tokens_dtor" /\ failed' = failed \cup {at}
        /\ status' = GET_TEXT_ERROR
        /\ held' = held \cup {"text"} /\ UNCHANGED exit
  /\ Untouched

tokens_ctor ==
  /\ at = "tokens_ctor"
  /\ Works("parse_text_for_tokens", {"tokens"}) \/ Ignore("parse_text_for_tokens")
  /\ Untouched

(* The first token is written through a null pointer after a failure.      *)
parse_text_for_tokens ==
  /\ at = "parse_text_for_tokens"
  /\ Works(IF "tokens" \in held \/ program.n_tokens = 0 THEN "calloc_dump" ELSE "crashed", {})
  /\ Untouched

calloc_dump ==
  /\ at = "calloc_dump"
  /\ Works("save_tokens_in_text", {"dump_text"}) \/ Return(NULL_CALLOC)
  /\ Untouched

save_tokens_in_text ==
  /\ at = "save_tokens_in_text"
  /\ Works(IF program.dump_ends THEN "open_dump" ELSE "hangs", {})
  /\ Untouched

open_dump ==
  /\ at = "open_dump"
  /\ \/ Works("fwrite_dump", {"dump"}) /\ dump' = "empty"
     \/ Return(NULL_FILE_PTR) /\ UNCHANGED dump
  /\ UNCHANGED << program, argc, pages, ran >>

(* After a short count the file is not closed.                             *)
fwrite_dump ==
  /\ at = "fwrite_dump"
  /\ Works("fclose_dump", {}) \/ Return(NULL_FWRITE)
  /\ dump' = "part"
  /\ UNCHANGED << program, argc, pages, ran >>

(* Mutant: the file is left to exit.                                       *)
leave_dump_open ==
  /\ at = "fclose_dump"
  /\ Works("alloc_buf", {})
  /\ Untouched

(* The last of the text is written now, or not.                            *)
fclose_dump ==
  /\ at = "fclose_dump"
  /\ at' = "alloc_buf"
  /\ held' = held \ {"dump"}
  /\ \/ dump' = "whole" /\ UNCHANGED failed
     \/ failed' = failed \cup {at} /\ UNCHANGED dump
  /\ UNCHANGED << program, argc, status, pages, ran, exit >>

alloc_buf ==
  /\ at = "alloc_buf"
  /\ Works("alloc_exec_memory", {"buf"}) \/ Return(NULL_CALLOC)
  /\ Untouched

(* Neither buffer is ever released: jit_code_dtor has no caller.           *)
alloc_exec_memory ==
  /\ at = "alloc_exec_memory"
  /\ Works("fill_jit_code_buf", {"exec_memory"}) \/ Return(NULL_CALLOC)
  /\ Untouched

fill_jit_code_buf ==
  /\ at = "fill_jit_code_buf"
  /\ Works(IF program.fill_ends THEN "make_buf_executable" ELSE "hangs", {})
  /\ Untouched

(* Mutant: the last page is left out.                                      *)
FullPages(size) == size \div PAGE_SIZE

(* mprotect takes whole pages.                                             *)
PagesOf(size) == (size + PAGE_SIZE - 1) \div PAGE_SIZE

(* The status is overwritten by the next call's.                           *)
make_buf_executable ==
  /\ at = "make_buf_executable"
  /\ at' = "make_buf_writable"
  /\ \/ pages' = PagesOf(program.size) /\ status' = 0 /\ UNCHANGED failed
     \/ status' = CHANGE_PROTECTION_ERROR /\ failed' = failed \cup {at} /\ UNCHANGED pages
  /\ UNCHANGED << program, argc, held, dump, ran, exit >>

(* The data memory can be written to whether this works or not.            *)
make_buf_writable ==
  /\ at = "make_buf_writable"
  /\ at' = "run_jit_buffer"
  /\ \/ status' = 0 /\ UNCHANGED failed
     \/ status' = CHANGE_PROTECTION_ERROR /\ failed' = failed \cup {at}
  /\ UNCHANGED << program, argc, held, dump, pages, ran, exit >>

(* The ret is the byte behind the size bytes of the code.                  *)
CanBegin  == pages > 0
CanReturn == program.size < pages * PAGE_SIZE

run_jit_buffer ==
  /\ at = "run_jit_buffer"
  /\ at' = CASE ~CanBegin -> "crashed"
             [] CanBegin /\ program.fate = "loops" -> "hangs"
             [] CanBegin /\ program.fate = "wild" -> "lost"
             [] CanBegin /\ program.fate = "returns" ->
                  IF CanReturn THEN "tokens_dtor" ELSE "crashed"
  /\ ran' = (at' = "tokens_dtor")
  /\ UNCHANGED << program, argc, status, held, dump, pages, failed, exit >>

(* terminate_process *)
tokens_dtor ==
  /\ at = "tokens_dtor"
  /\ at' = "log_dtor"
  /\ held' = held \ {"tokens"}
  /\ UNCHANGED << status, failed, exit >>
  /\ Untouched

log_dtor ==
  /\ at = "log_dtor"
  /\ at' = "exited"
  /\ held' = held \ {"log"}
  /\ exit' = status
  /\ UNCHANGED << status, failed >>
  /\ Untouched

Ended == at \in Ends /\ UNCHANGED vars

Parse == open_input \/ get_text \/ tokens_ctor \/ parse_text_for_tokens
Save  == calloc_dump \/ save_tokens_in_text \/ open_dump \/ fwrite_dump \/ fclose_dump
Jit   == \/ alloc_buf \/ alloc_exec_memory \/ fill_jit_code_buf
         \/ make_buf_executable \/ make_buf_writable \/ run_jit_buffer

Next == log_init \/ check_arguments \/ Parse \/ Save \/ Jit \/ tokens_dtor \/ log_dtor \/ Ended

Spec == Init /\ [][Next]_vars

-----------------------------------------------------------------------------
TypeOK ==
  /\ program \in Programs
  /\ argc \in {1, 2}
  /\ at \in Calls \cup Ends
  /\ status \in Errors \cup {0} /\ exit \in Errors \cup {0}
  /\ held \subseteq Resources
  /\ dump \in {"old", "empty", "part", "whole"}
  /\ pages \in Nat
  /\ failed \subseteq Calls
  /\ ran \in BOOLEAN

(* Hazard: statuses are returned, passed on, ignored and overwritten, and  *)
(* the shell sees their lowest byte.  It sees 0 exactly if the code ran to *)
(* its end and its data was protected as asked; of what it then does not   *)
(* hear of, only the close of the dump and the array of a program without  *)
(* tokens can have failed (main, jit).                                     *)
StatusTellsTruth ==
  at = "exited" =>
    /\ exit % 256 = 0 <=> ran /\ "make_buf_writable" \notin failed
    /\ exit % 256 = 0 =>
         /\ failed \subseteq {"fclose_dump", "tokens_ctor"}
         /\ "tokens_ctor" \in failed => program.n_tokens = 0
         /\ "fclose_dump" \notin failed => dump = "whole"

(* Hazard: the results nobody looks at, and a ret outside the bytes that   *)
(* are counted.  A process that crashes has one of four reasons: no log,   *)
(* no array for its tokens, a buffer that may not be executed, or a code   *)
(* that fills its last page, so that the ret is on the next.               *)
CrashesForAReason ==
  at = "crashed" =>
    \/ "log_init" \in failed
    \/ "tokens_ctor" \in failed /\ program.n_tokens > 0
    \/ "make_buf_executable" \in failed
    \/ program.fate = "returns" /\ program.size % PAGE_SIZE = 0

(* Hazard: the generated code may take the process with it.  What was      *)
(* dumped before is in the file by then, unless its close failed           *)
(* (write_buf_in_file).                                                    *)
DumpOutlivesCode ==
  at \in {"run_jit_buffer", "lost"} \/ ran =>
    /\ "dump" \notin held
    /\ dump = "whole" \/ "fclose_dump" \in failed

(* Hazard: every error leaves by its own way.  All but the missing         *)
(* argument, which leaves the log open, release the tokens and the log     *)
(* (terminate_process).                                                    *)
ReleasedAtExit ==
  at = "exited" /\ exit # NO_INPUT_FILE => {"tokens", "log"} \cap held = {}
=============================================================================
