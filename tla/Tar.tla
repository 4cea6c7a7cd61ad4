--------------------------------- MODULE Tar --------------------------------
(***************************************************************************)
(* tar/tar.c: the list of an archive, in a mapping of a file that may have *)
(* been cut anywhere.  A member is a header and its data, padded to whole  *)
(* blocks; a long name is a member of its own, before the one it names;    *)
(* two blocks of zeros end the archive.                                    *)
(***************************************************************************)
EXTENDS Integers, Sequences

CONSTANTS
  TarBlock,       (* 512                                                    *)
  TarWord,        (* 2^32: sizes are unsigned int, offs is an int           *)
  TarSizes,       (* sizes of members, also of more than a word holds       *)
  TarMembers,     (* bound: members of an archive                           *)
  TarLines,       (* bound: lines that are printed                          *)
  TarCut          (* bound: files are cut at multiples of this              *)

ASSUME TarAssumption ==
  /\ {TarBlock, TarWord, TarCut, TarMembers} \subseteq Nat \ {0} /\ TarWord % (2 * TarBlock) = 0
  /\ TarSizes \subseteq Nat
  /\ TarLines \in Nat /\ TarLines >= TarMembers

TarArchives == UNION {[1 .. n -> [long : BOOLEAN, size : TarSizes]] : n \in 0 .. TarMembers}

VARIABLES
  tar_archive,
  tar_file,       (* the size of the file                                   *)
  tar_size,       (* and what tar_parse is told of it, an int               *)
  tar_offs,
  tar_name,       (* filename: the member with the long name, 0 for NULL    *)
  tar_out,        (* the lines: a member, and the member with its name or 0 *)
  tar_pc          (* "run", "end" and "bad" of check_header, "size", "fault" *)

tarVars == <<tar_archive, tar_file, tar_size, tar_offs, tar_name, tar_out, tar_pc>>

TarInts == -(TarWord \div 2) .. (TarWord \div 2) - 1

TarTypeOK ==
  /\ tar_archive \in TarArchives /\ tar_file \in Nat
  /\ tar_size \in TarInts /\ tar_offs \in TarInts
  /\ tar_name \in 0 .. Len(tar_archive)
  /\ Len(tar_out) <= TarLines
  /\ tar_pc \in {"run", "end", "bad", "size", "fault"}

(***************************************************************************)
(* What an archive holds, and where                                        *)
(***************************************************************************)
TarBlocks(n) == ((n + TarBlock - 1) \div TarBlock) * TarBlock

TarAt(archive) ==
  LET at[i \in 1 .. Len(archive) + 1] ==
        IF i = 1 THEN 0 ELSE at[i - 1] + TarBlock + TarBlocks(archive[i - 1].size)
  IN at

\* The int that is kept of a number, when it is assigned.
TarSigned(n) == LET w == n % TarWord IN IF w < TarWord \div 2 THEN w ELSE w - TarWord

\* main keeps the size in an unsigned int, and tar_parse takes an int.
TarInit ==
  /\ tar_archive \in TarArchives
  /\ LET whole == TarAt(tar_archive)[Len(tar_archive) + 1] + 2 * TarBlock
     IN tar_file \in {n \in 0 .. whole : n % TarCut = 0 \/ n = whole}
  /\ tar_size = TarSigned(tar_file)
  /\ tar_offs = 0 /\ tar_name = 0 /\ tar_out = <<>> /\ tar_pc = "run"

(***************************************************************************)
(* tar_parse                                                               *)
(***************************************************************************)
\* _get_octal: digits beyond the word are shifted out.
TarOctal(n) == n % TarWord

\* Mutant: the padding is dropped.
TarAdvanceUnpadded(size) == TarSigned(tar_offs + TarBlock + (size - (size % TarBlock)))

\* The sum wraps before the mask rounds it down.
TarAdvance(size) ==
  LET sum == (size + TarBlock - 1) % TarWord
  IN TarSigned(tar_offs + TarBlock + (sum - (sum % TarBlock)))

\* Mutant: a last block that is not whole is looked at.
TarMorePart == tar_size - tar_offs > 0

\* What is left, an int: undefined when it overflows, and either way is taken then.
TarMore == tar_size - tar_offs >= TarBlock \/ tar_size - tar_offs \notin TarInts
TarOver == tar_size - tar_offs < TarBlock \/ tar_size - tar_offs \notin TarInts

TarHeader(i) ==
  /\ i \in DOMAIN tar_archive /\ TarAt(tar_archive)[i] = tar_offs /\ Len(tar_out) < TarLines
  /\ IF tar_archive[i].long THEN tar_name' = i /\ UNCHANGED tar_out
     ELSE tar_out' = Append(tar_out, <<i, tar_name>>) /\ tar_name' = 0
  /\ tar_offs' = TarAdvance(TarOctal(tar_archive[i].size))
  /\ UNCHANGED tar_pc

\* check_header: a block of zeros has the checksum of one, anything else but a
\* header a wrong one.
TarNoHeader ==
  /\ \A i \in DOMAIN tar_archive : TarAt(tar_archive)[i] # tar_offs
  /\ tar_pc' = IF tar_offs < 0 \/ tar_offs + TarBlock > tar_size THEN "fault"
               ELSE IF tar_offs >= TarAt(tar_archive)[Len(tar_archive) + 1] THEN "end" ELSE "bad"
  /\ UNCHANGED <<tar_offs, tar_name, tar_out>>

TarStep ==
  /\ tar_pc = "run"
  /\ \/ TarMore /\ ((\E i \in 1 .. TarMembers : TarHeader(i)) \/ TarNoHeader)
     \/ TarOver /\ tar_pc' = "size" /\ UNCHANGED <<tar_offs, tar_name, tar_out>>
  /\ UNCHANGED <<tar_archive, tar_file, tar_size>>

TarSpec == TarInit /\ [][TarStep]_tarVars

(***************************************************************************)
(* Properties                                                              *)
(***************************************************************************)
\* A file of less than half of the word (2 GiB), in which no header tells of a member
\* that ends above it.  What the archive had behind a cut does not matter.
TarFits ==
  LET at == TarAt(tar_archive)
  IN /\ tar_file < TarWord \div 2
     /\ \A i \in DOMAIN tar_archive : at[i] + TarBlock <= tar_file => at[i + 1] < TarWord \div 2

\* The lines are the members whose header is whole, in their order, each under
\* the long name before it if there is one, wherever the file was cut; for the files
\* that an int can count.  Others may end too early, go on for ever, or fault.
ListsTheMembers ==
  TarFits /\ tar_pc # "run" =>
    LET at == TarAt(tar_archive)
        there == {i \in DOMAIN tar_archive : ~tar_archive[i].long /\ at[i] + TarBlock <= tar_file}
    IN /\ {tar_out[k][1] : k \in DOMAIN tar_out} = there
       /\ \A k \in DOMAIN tar_out :
            /\ k > 1 => tar_out[k - 1][1] < tar_out[k][1]
            /\ LET i == tar_out[k][1]
               IN tar_out[k][2] = IF i > 1 /\ tar_archive[i - 1].long THEN i - 1 ELSE 0

\* In such a file a header is never looked for outside of it, none of a member's data
\* is taken for one, and a long name that is printed is in the file.
StaysOnHeaders ==
  TarFits =>
    /\ tar_pc \notin {"fault", "bad"}
    /\ \A k \in DOMAIN tar_out : tar_out[k][2] # 0 =>
         LET i == tar_out[k][2]
         IN TarAt(tar_archive)[i] + TarBlock + TarBlocks(tar_archive[i].size) <= tar_file

=============================================================================
