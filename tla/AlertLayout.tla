----------------------------- MODULE AlertLayout -----------------------------
(***************************************************************************)
(* The contract between the structs the hooks write and the parsers that   *)
(* read them: a record is sizeof(struct) bytes, and try_from_bytes takes   *)
(* it apart with a BpfReader, field by field, from its own idea of the     *)
(* struct.  A byte is known by its place; what the strings hold, and how   *)
(* they are sanitised, is left out.                                        *)
(***************************************************************************)
EXTENDS Naturals, Sequences, SequencesExt

VARIABLES
  slug,    \* the module whose record is decoded
  offset,  \* BpfReader.offset
  fields,  \* where each field that was read began
  result   \* "reading", "ok" or "err"

vars == <<slug, offset, fields, result>>

PATH_MAX == 4096
U32(name) == [name |-> name, size |-> 4, align |-> 4]
Chars(name, n) == [name |-> name, size |-> n, align |-> 1]
-----------------------------------------------------------------------------
(* The structs of the kernel side.                                         *)
exec_alert == <<U32("pid"), Chars("path", PATH_MAX)>>
shield_alert ==
  <<U32("pid"), U32("action_type"), Chars("target", PATH_MAX)>>
mount_alert == <<U32("pid"), Chars("dev_name", 256), Chars("fs_type", 64),
                 Chars("mount_point", 512)>>
strict_wx_alert == <<U32("pid"), Chars("syscall", 16)>>
dump_alert ==
  <<U32("pid"), U32("uid"), U32("action_type"), Chars("comm", 16)>>
ptrace_alert ==
  <<U32("pid"), U32("target_pid"), U32("action_type"), Chars("target_comm", 16)>>
madvise_alert == <<U32("pid"), U32("tid"), U32("count"), U32("action_type"),
                   Chars("comm", 16)>>
userns_alert == <<U32("pid"), U32("action_type"), Chars("target", 64)>>
io_restrict_alert ==
  <<U32("tgid"), U32("pid"), U32("action_type"), Chars("syscall", 16)>>
rename_alert == <<U32("pid"), U32("ppid"), Chars("dir_path", PATH_MAX),
                  Chars("file_name", 256)>>

structs ==
  [exec_block |-> exec_alert, shield |-> shield_alert,
   mount_secure |-> mount_alert, strict_wx |-> strict_wx_alert,
   dump_restrict |-> dump_alert, ptrace_block |-> ptrace_alert,
   madvise_ratelimit |-> madvise_alert, userns_restrict |-> userns_alert,
   io_restrict |-> io_restrict_alert, rename_entropy |-> rename_alert]

(* C's layout: a field begins at a multiple of its alignment.              *)
Aligned(n, a) == ((n + a - 1) \div a) * a
End(fs) == FoldLeft(LAMBDA n, f : Aligned(n, f.align) + f.size, 0, fs)
SizeOf(fs) == Aligned(End(fs), 4)
OffsetOf(fs, name) ==
  LET i == CHOOSE i \in DOMAIN fs : fs[i].name = name
  IN  Aligned(End(SubSeq(fs, 1, i - 1)), fs[i].align)
-----------------------------------------------------------------------------
(* The parsers: the shortest record they take, and what they read of it.   *)
(* A parser's pid is the process, which io_restrict_alert calls tgid.      *)
Parser(min, reads) == [min |-> min, reads |-> reads]

ExecAlert == Parser(4100, <<U32("pid"), Chars("path", 4096)>>)
ShieldAlert ==
  Parser(4104, <<U32("pid"), U32("action_type"), Chars("target", 4096)>>)
MountAlert ==
  Parser(836, <<U32("pid"), Chars("dev_name", 256), Chars("fs_type", 64),
                Chars("mount_point", 512)>>)
StrictWxAlert == Parser(20, <<U32("pid"), Chars("syscall", 16)>>)
DumpAlert ==
  Parser(28, <<U32("pid"), U32("uid"), U32("action_type"), Chars("comm", 16)>>)
PtraceAlert ==
  Parser(28, <<U32("pid"), U32("target_pid"), U32("action_type"),
               Chars("target_comm", 16)>>)
MadviseAlert ==
  Parser(32, <<U32("pid"), U32("tid"), U32("count"), U32("action_type"),
               Chars("comm", 16)>>)
UsernsAlert ==
  Parser(72, <<U32("pid"), U32("action_type"), Chars("target", 64)>>)
IoRestrictAlert ==
  Parser(24, <<U32("tgid"), U32("action_type"), Chars("syscall", 16)>>)
RenameAlert ==
  Parser(4360, <<U32("pid"), U32("ppid"), Chars("dir_path", 4096),
                 Chars("file_name", 256)>>)

parsers ==
  [exec_block |-> ExecAlert, shield |-> ShieldAlert,
   mount_secure |-> MountAlert, strict_wx |-> StrictWxAlert,
   dump_restrict |-> DumpAlert, ptrace_block |-> PtraceAlert,
   madvise_ratelimit |-> MadviseAlert, userns_restrict |-> UsernsAlert,
   io_restrict |-> IoRestrictAlert, rename_entropy |-> RenameAlert]

Length == SizeOf(structs[slug])
reads == parsers[slug].reads
Position == Cardinality(DOMAIN fields) + 1
-----------------------------------------------------------------------------
(* A record of any module reaches its parser, which checks its length.     *)
Init ==
  /\ slug \in DOMAIN structs
  /\ offset = 0
  /\ fields = [f \in {} |-> 0]
  /\ result = IF Length < parsers[slug].min THEN "err" ELSE "reading"

(* read_u32 and read_string: nothing beyond the end of the record.         *)
Read ==
  /\ result = "reading" /\ Position <= Len(reads)
  /\ LET f == reads[Position] IN
       IF offset + f.size > Length
         THEN result' = "err" /\ UNCHANGED <<offset, fields>>
         ELSE /\ fields' = [g \in DOMAIN fields \cup {f.name} |->
                              IF g = f.name THEN offset ELSE fields[g]]
              /\ offset' = offset + f.size
              /\ UNCHANGED result
  /\ UNCHANGED slug

Done ==
  /\ result = "reading" /\ Position > Len(reads)
  /\ result' = "ok"
  /\ UNCHANGED <<slug, offset, fields>>

Next == Read \/ Done

Spec == Init /\ [][Next]_vars
-----------------------------------------------------------------------------
(* "Memory layout must strictly mirror the `IoRestrictAlert` struct in the *)
(* Rust userland" (io_restrict.bpf.c line 49, and so for every module): a  *)
(* field is read where the hook wrote it.                                  *)
LayoutsMirror ==
  \A f \in DOMAIN fields : fields[f] = OffsetOf(structs[slug], f)
=============================================================================
