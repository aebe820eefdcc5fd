--------------------------- MODULE MC_MemIOHandler ---------------------------
\* Small instance of MemIOHandler: buffers of up to 6 bytes, requests that are
\* shorter, equal to and longer than what is left, offsets that land before,
\* inside and past the buffer, and one whence value seek does not know.
EXTENDS MemIOHandler

MCLengths == 0..6
MCRequests == {1, 2, 7}
MCOffsets == {-7, -1, 0, 1, 3, 7}
MCWhences == {SEEK_SET, SEEK_CUR, SEEK_END, "SEEK_DATA"}
=============================================================================
