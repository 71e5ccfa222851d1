-------------------------- MODULE InflashSettings --------------------------
(***************************************************************************)
(* src/module/settings/inflash_settings.c: a setting is kept in a range of *)
(* NOR flash that is never erased when the setting changes.  The range is  *)
(* a row of slots: the data, its bitwise inverse, a flag word.  A slot     *)
(* whose flag was programmed is dead; the first slot that is not dead and  *)
(* whose inverse matches holds the value.                                  *)
(*                                                                         *)
(* All settings lie in one flash page, the last of the chip.  It is a      *)
(* function from word offsets to what the word holds, values being told    *)
(* apart by name only.                                                     *)
(***************************************************************************)
EXTENDS Integers, SequencesExt

CONSTANT PageWords  \* words of a flash page: 256 bytes / 4

Erased == <<"erased">>          \* NOT_PROGRAMMED_DATA
InvalidFlag == <<"INVA">>
Word(v) == <<"word", v>>
Complement(v) == <<"inverse", v>>
Garbage == <<"garbage">>        \* two different values programmed over

ErasedPage == [i \in 0 .. PageWords - 1 |-> Erased]

(* Programming only clears bits. *)
Burn(old, new) == IF old = Erased THEN new
                  ELSE IF new = Erased \/ new = old THEN old
                  ELSE Garbage

(* A page program: past the end of the page the chip goes on at its start. *)
Programmed(page, at, words) ==
  [i \in 0 .. PageWords - 1 |->
     LET k == (i - at) % PageWords
     IN  IF k < Len(words) THEN Burn(page[i], words[k + 1]) ELSE page[i]]

(* A read past the last page of the chip finds something, but not this.    *)
ReadWord(page, i) == IF i < PageWords THEN page[i] ELSE Garbage

(* struct setting_info, in words; a slot is the data twice and a flag.     *)
SettingInfo(start, range, size) == [start |-> start, range |-> range, size |-> size]

SlotWords(info) == 2 * info.size + 1

FlagAt(info, at) == at + 2 * info.size

Slots(info) == { at \in info.start .. info.start + info.range - 1 :
                   (at - info.start) % SlotWords(info) = 0 }

not_programmed(page, info, at) ==
  \A i \in at .. FlagAt(info, at) - 1 : ReadWord(page, i) = Erased

inversion_data_check(page, info, at) ==
  \A i \in at .. at + info.size - 1 :
    /\ ReadWord(page, i)[1] = "word"
    /\ ReadWord(page, i + info.size) = Complement(ReadWord(page, i)[2])

NoSlot == -1

(* _settings_get: the slot its loop stops at, NoSlot when it runs past the *)
(* range, and whether that slot holds a value.                             *)
settings_find(page, info) ==
  LET stops == { at \in Slots(info) :
                   /\ ReadWord(page, FlagAt(info, at)) = Erased
                   /\ \/ not_programmed(page, info, at)
                      \/ inversion_data_check(page, info, at) }
  IN  IF stops = {} THEN [found |-> FALSE, at |-> NoSlot]
      ELSE [found |-> ~not_programmed(page, info, Min(stops)), at |-> Min(stops)]

IsSet(page, info) == settings_find(page, info).found

settings_get(page, info) ==
  [i \in 1 .. info.size |-> ReadWord(page, settings_find(page, info).at + i - 1)[2]]

(* inversion_data_write: the data and its inverse, in one page program.    *)
inversion_data(data) == [i \in DOMAIN data |-> Word(data[i])]
                        \o [i \in DOMAIN data |-> Complement(data[i])]

(* settings_make_invalid *)
MadeInvalid(page, info) ==
  IF IsSet(page, info)
  THEN Programmed(page, FlagAt(info, settings_find(page, info).at), << InvalidFlag >>)
  ELSE page
=============================================================================
