------------------------------- MODULE MCXtask -------------------------------
(***************************************************************************)
(* `cargo xtask` on small disks: sectors of eight cells, tables of a few    *)
(* sectors. The sizes go from too small for the tables, through disks      *)
(* that are just too small for the files, to ones with room to spare. The  *)
(* boots are all made with one disk.                                       *)
(***************************************************************************)
EXTENDS Xtask

MCWords == <<[text |-> "BIN", length |-> 3], [text |-> "BOOT", length |-> 4],
             [text |-> "BOOTX64", length |-> 7], [text |-> "EFI", length |-> 3],
             [text |-> "ELF", length |-> 3], [text |-> "EMPTY", length |-> 5],
             [text |-> "HARLAN", length |-> 6], [text |-> "HARLANESP", length |-> 9],
             [text |-> "HELLO", length |-> 5], [text |-> "LONG", length |-> 4],
             [text |-> "SHELL", length |-> 5], [text |-> "TXT", length |-> 3]>>

Of(sectors, per_cluster, program, shell, esp_size, loader) ==
  [sectors |-> sectors, sectors_per_cluster |-> per_cluster, user_program |-> program,
   shell |-> shell, esp_sectors |-> esp_size, bootloader |-> loader]

Ask(kind, features, marker, repeat, setup) ==
  [kind |-> kind, features |-> features, marker |-> marker, repeat |-> repeat, setup |-> setup]

Usual == Of(40, 1, 9, 8, 40, 5)

Images ==
  {Ask("build", f, "none", 0, Of(n, c, p, 8, 40, 5)) :
     f \in {{}}, n \in {5} \cup 30 .. 76, c \in {1, 2}, p \in {0, 1, 8, 9, 40}}
  \cup
  {Ask("usb_image", f, "none", 0, Of(n, 1, 9, 8, e, l)) :
     f \in {{}, {"inventory"}}, n \in {60, 63, 64}, e \in 18 .. 40, l \in {0, 8, 9}}

Tests ==
  {Ask("boot_test", {"heap-stress"}, "DEFAULT_MARKER", 2, Usual),
   Ask("boot_test", {}, "boot_ok", 1, Usual),
   Ask("soak_test", {"soak"}, "none", 1, Usual)}

MCCommands == Images \cup Tests
==============================================================================
