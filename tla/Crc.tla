-------------------------------- MODULE Crc --------------------------------
(***************************************************************************)
(* The checksum of a message (calcCrc in se/msg.py), computed a byte at a  *)
(* time from a table, and what the table and the function are meant to be: *)
(* the CRC-16 of msg.py:154-156, "width=16 poly=0x8005 init=0x5a5a         *)
(* refin=true refout=true xorout=0x0000", computed a bit at a time.        *)
(***************************************************************************)
EXTENDS Integers, Sequences, SequencesExt, Bitwise

crcTable ==
  <<
     \h0000, \hc0c1, \hc181, \h0140, \hc301, \h03c0, \h0280, \hc241, \hc601, \h06c0, \h0780,
     \hc741, \h0500, \hc5c1, \hc481, \h0440, \hcc01, \h0cc0, \h0d80, \hcd41, \h0f00, \hcfc1,
     \hce81, \h0e40, \h0a00, \hcac1, \hcb81, \h0b40, \hc901, \h09c0, \h0880, \hc841, \hd801,
     \h18c0, \h1980, \hd941, \h1b00, \hdbc1, \hda81, \h1a40, \h1e00, \hdec1, \hdf81, \h1f40,
     \hdd01, \h1dc0, \h1c80, \hdc41, \h1400, \hd4c1, \hd581, \h1540, \hd701, \h17c0, \h1680,
     \hd641, \hd201, \h12c0, \h1380, \hd341, \h1100, \hd1c1, \hd081, \h1040, \hf001, \h30c0,
     \h3180, \hf141, \h3300, \hf3c1, \hf281, \h3240, \h3600, \hf6c1, \hf781, \h3740, \hf501,
     \h35c0, \h3480, \hf441, \h3c00, \hfcc1, \hfd81, \h3d40, \hff01, \h3fc0, \h3e80, \hfe41,
     \hfa01, \h3ac0, \h3b80, \hfb41, \h3900, \hf9c1, \hf881, \h3840, \h2800, \he8c1, \he981,
     \h2940, \heb01, \h2bc0, \h2a80, \hea41, \hee01, \h2ec0, \h2f80, \hef41, \h2d00, \hedc1,
     \hec81, \h2c40, \he401, \h24c0, \h2580, \he541, \h2700, \he7c1, \he681, \h2640, \h2200,
     \he2c1, \he381, \h2340, \he101, \h21c0, \h2080, \he041, \ha001, \h60c0, \h6180, \ha141,
     \h6300, \ha3c1, \ha281, \h6240, \h6600, \ha6c1, \ha781, \h6740, \ha501, \h65c0, \h6480,
     \ha441, \h6c00, \hacc1, \had81, \h6d40, \haf01, \h6fc0, \h6e80, \hae41, \haa01, \h6ac0,
     \h6b80, \hab41, \h6900, \ha9c1, \ha881, \h6840, \h7800, \hb8c1, \hb981, \h7940, \hbb01,
     \h7bc0, \h7a80, \hba41, \hbe01, \h7ec0, \h7f80, \hbf41, \h7d00, \hbdc1, \hbc81, \h7c40,
     \hb401, \h74c0, \h7580, \hb541, \h7700, \hb7c1, \hb681, \h7640, \h7200, \hb2c1, \hb381,
     \h7340, \hb101, \h71c0, \h7080, \hb041, \h5000, \h90c1, \h9181, \h5140, \h9301, \h53c0,
     \h5280, \h9241, \h9601, \h56c0, \h5780, \h9741, \h5500, \h95c1, \h9481, \h5440, \h9c01,
     \h5cc0, \h5d80, \h9d41, \h5f00, \h9fc1, \h9e81, \h5e40, \h5a00, \h9ac1, \h9b81, \h5b40,
     \h9901, \h59c0, \h5880, \h9841, \h8801, \h48c0, \h4980, \h8941, \h4b00, \h8bc1, \h8a81,
     \h4a40, \h4e00, \h8ec1, \h8f81, \h4f40, \h8d01, \h4dc0, \h4c80, \h8c41, \h4400, \h84c1,
     \h8581, \h4540, \h8701, \h47c0, \h4680, \h8641, \h8201, \h42c0, \h4380, \h8341, \h4100,
     \h81c1, \h8081, \h4040
  >>

tableCrc(data) ==
  FoldLeft(LAMBDA crc, d : crcTable[((crc ^^ d) & 255) + 1] ^^ (crc \div 256), \h5a5a, data)

-----------------------------------------------------------------------------
Byte == 0 .. 255

\* One bit: shifted out to the right, and the reflected polynomial if it was 1.
Bit(crc) == IF crc % 2 = 1 THEN (crc \div 2) ^^ \ha001 ELSE crc \div 2
EightBits(crc) == FoldLeft(LAMBDA c, i : Bit(c), crc, <<1, 2, 3, 4, 5, 6, 7, 8>>)
Crc16(data) == FoldLeft(LAMBDA crc, d : EightBits(crc ^^ d), \h5a5a, data)

\* Every entry of the table is eight steps of the polynomial.
ASSUME TableIsPolynomial ==
  /\ Len(crcTable) = 256
  /\ \A b \in Byte : crcTable[b + 1] = EightBits(b)

\* With the table, it is the CRC that the comment names, on data that reaches
\* every entry.
Samples == {<<>>} \cup {<<b>> : b \in Byte} \cup {<<b, 255 - b, 18, 52>> : b \in Byte}
ASSUME TableCrcIsCrc16 == \A data \in Samples : tableCrc(data) = Crc16(data)

\* A byte that is changed, wherever it is, changes the checksum.
ASSUME ChangeIsSeen ==
  \A i \in 1 .. 4 : \A b \in Byte \ {18} :
    tableCrc(ReplaceAt(<<18, 18, 18, 18>>, i, b)) # tableCrc(<<18, 18, 18, 18>>)
=============================================================================
