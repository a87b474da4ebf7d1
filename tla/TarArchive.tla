----------------------------- MODULE TarArchive -----------------------------
(* solution-services/package-manager/registry/tar-archive.ts: packing the    *)
(* files of a package into USTAR records and recovering them.  A path and a  *)
(* body are sequences of bytes; a header is the record of the fields that    *)
(* are read back, each of them padded with NUL to its width.                *)
EXTENDS Naturals, Sequences, SequencesExt

CONSTANTS
    NameLength,     \* width of the name field (100 in the code)
    PrefixLength,   \* width of the prefix field (155)
    SizeLength,     \* width of the size field, its terminator included (12)
    Block           \* bytes of a record (512)

Nul == 0
Space == 32
Slash == 47
Zero == 48
Refused == [refused |-> TRUE]

Nuls(n) == [i \in 1..n |-> Nul]
Put(text, width) == text \o Nuls(width - Len(text))

(* Digits of a number in base 8, most significant first. *)
Octal(n) ==
    LET width == CHOOSE w \in 1..8 : n < 8^w /\ \A v \in 1..(w - 1) : n >= 8^v
    IN  [i \in 1..width |-> Zero + ((n \div 8^(width - i)) % 8)]
OctalField(n) ==
    [i \in 1..(SizeLength - 1 - Len(Octal(n))) |-> Zero] \o Octal(n) \o <<Nul>>

(* A path too long for the name field is cut at the last separator at or     *)
(* before index NameLength (counted from 0).                                *)
Cuts(path) == {i \in 1..Len(path) : path[i] = Slash /\ i <= NameLength + 1}
LastCut(path) == CHOOSE i \in Cuts(path) : \A j \in Cuts(path) : j <= i

Split(path) ==
    IF Len(path) <= NameLength THEN [name |-> path, prefix |-> <<>>]
    ELSE [name |-> SubSeq(path, LastCut(path) + 1, Len(path)),
          prefix |-> SubSeq(path, 1, LastCut(path) - 1)]

Packable(entry) ==
    /\ Len(entry.path) <= NameLength \/ Cuts(entry.path) # {}
    /\ Len(Split(entry.path).name) <= NameLength
    /\ Len(Split(entry.path).prefix) <= PrefixLength
    /\ Len(Octal(Len(entry.bytes))) < SizeLength

Header(entry) ==
    [name |-> Put(Split(entry.path).name, NameLength),
     prefix |-> Put(Split(entry.path).prefix, PrefixLength),
     size |-> OctalField(Len(entry.bytes))]
ZeroBlock == [name |-> Nuls(NameLength), prefix |-> Nuls(PrefixLength),
              size |-> Nuls(SizeLength)]

RoundUp(n) == ((n + Block - 1) \div Block) * Block
Padding(n) == Nuls(IF n % Block = 0 THEN 0 ELSE Block - (n % Block))

(* The archive, a sequence of headers and of body records of Block bytes.    *)
Records(bytes) ==
    LET padded == bytes \o Padding(Len(bytes))
    IN  [i \in 1..(Len(padded) \div Block) |->
            SubSeq(padded, (i - 1) * Block + 1, i * Block)]

Pack(entries) ==
    IF \E k \in DOMAIN entries : ~Packable(entries[k]) THEN Refused
    ELSE FlattenSeq([k \in DOMAIN entries |->
                        <<Header(entries[k])>> \o Records(entries[k].bytes)])
            \o <<ZeroBlock, ZeroBlock>>

(* A field ends at its first NUL or space. *)
Field(field) ==
    LET ends == {i \in DOMAIN field : field[i] \in {Nul, Space}}
    IN  IF ends = {} THEN field
        ELSE SubSeq(field, 1, (CHOOSE i \in ends : \A j \in ends : i <= j) - 1)

ReadOctal(field) ==
    FoldLeft(LAMBDA n, digit : 8 * n + digit - Zero, 0, Field(field))

ReadPath(header) ==
    LET prefix == Field(header.prefix)
    IN  IF prefix = <<>> THEN Field(header.name)
        ELSE prefix \o <<Slash>> \o Field(header.name)

(* Walk the records up to the first zero block. *)
Unpack(tar) ==
    LET body(k, size) == SubSeq(FlattenSeq(SubSeq(tar, k + 1, k + RoundUp(size) \div Block)),
                                1, size)
        from[k \in 1..(Len(tar) + 1)] ==
            IF k > Len(tar) \/ tar[k] = ZeroBlock THEN <<>>
            ELSE LET size == ReadOctal(tar[k].size)
                 IN  <<[path |-> ReadPath(tar[k]), bytes |-> body(k, size)]>>
                       \o from[k + 1 + RoundUp(size) \div Block]
    IN  from[1]
=============================================================================
